---- MODULE Spec2Model ----
(***************************************************************************)
(* Schedulix: a discrete-time single-CPU scheduling simulator.             *)
(* Model of src/src/core/Process.js, src/src/core/Scheduler.js and the     *)
(* strategies under src/src/core/strategies/.                              *)
(*                                                                         *)
(* A process is identified by its position in Scheduler.processes (the     *)
(* code uses a uuid; positions are unique in the same way).  Queues hold   *)
(* process ids, the process records live in `processes`.                   *)
(***************************************************************************)
EXTENDS Integers, Sequences, FiniteSets, TLC

VARIABLES
    strategy,              \* Scheduler.strategy (NoStrategy = null)
    processes,             \* Scheduler.processes: sequence of Process records
    readyQueue,            \* Scheduler.readyQueue: sequence of ids
    waitingQueue,          \* Scheduler.waitingQueue: sequence of ids
    runningProcess,        \* Scheduler.runningProcess: id, or 0 for null
    completedProcesses,    \* Scheduler.completedProcesses: sequence of ids
    currentTime,           \* Scheduler.currentTime
    isContextSwitching,    \* Scheduler.isContextSwitching
    contextSwitchOverhead, \* Scheduler.contextSwitchOverhead
    ganttChart,            \* Scheduler.ganttChart: the trace
    metrics,               \* Scheduler.metrics
    quantumRemaining,      \* Scheduler.quantumRemaining
    ioRequested,           \* history: per process, the sum of the durations given to startIO
    levelSince,            \* history: per process, the time since which its queueLevel is > 0
    awaiting,              \* the nextProcess of each step() suspended at the await of
                           \* performContextSwitch, in the order their timers fire
    snapshot,              \* a snapshot a caller holds: the object getState() returned,
                           \* as it reads now
    calls                  \* history: the control calls (setStrategy, kill, inject, ...) made so far

vars == <<strategy, processes, readyQueue, waitingQueue, runningProcess,
          completedProcesses, currentTime, isContextSwitching,
          contextSwitchOverhead, ganttChart, metrics, quantumRemaining,
          ioRequested, levelSince, awaiting, snapshot, calls>>

----------------------------------------------------------------------------
(* Bounds of the model *)

MaxProcs == 2        \* processes added to one engine
MaxArrival == 1      \* largest arrivalTime given to addProcess
MaxBurst == 2        \* largest burstTime given to addProcess
MaxTime == 4         \* step() is not called once currentTime has reached this
MaxOverhead == 1     \* largest contextSwitchOverhead
MaxInjectIO == 2     \* largest duration given to injectIOInterrupt
MaxQuantum == 2      \* largest Round Robin timeQuantum
MaxRunTime == 40     \* run() is stopped once currentTime has reached this
MaxEqualProcs == 3   \* processes of an equal-burst workload
MaxEqualBurst == 4   \* burstTime of an equal-burst workload
MaxCalls == 1        \* setStrategy, killProcess and injectIOInterrupt calls made on one engine
CPUBoundBurst == 10  \* burstTime of the CPU-bound process run on its own
MaxAsyncTime == 2    \* an async step() is not begun once currentTime has reached this
MaxSuspended == 2    \* step() calls suspended at the same time
MaxQueues == 4       \* largest numQueues given to an MLFQ strategy
MLFQBoostInterval == 4   \* boostInterval given to the MLFQ strategies of the model

----------------------------------------------------------------------------
(* Program constants *)

NULL == -1               \* JavaScript null of the timing fields
Infinity == 1000000      \* JavaScript Infinity (quantum of a policy without one)
IOMin == 3               \* 3 + Math.floor(Math.random() * 5)
IOSpan == 5
DemoteMaxLevel == 2      \* process.demote(2) in handlePreemption

S_NEW == "NEW"
S_READY == "READY"
S_RUNNING == "RUNNING"
S_WAITING == "WAITING"
S_TERMINATED == "TERMINATED"
ProcessStates == {S_NEW, S_READY, S_RUNNING, S_WAITING, S_TERMINATED}

----------------------------------------------------------------------------
(* Process.js *)

Min(a, b) == IF a < b THEN a ELSE b
Max(a, b) == IF a > b THEN a ELSE b

\* new Process({arrivalTime, burstTime, ioFrequency}); ioFrequency in percent
Process(arrivalTime, burstTime, ioFrequency) ==
    [arrivalTime |-> arrivalTime,
     burstTime |-> burstTime,
     remainingTime |-> burstTime,
     queueLevel |-> 0,
     state |-> S_NEW,
     ioFrequency |-> ioFrequency,
     ioRemaining |-> 0,
     startTime |-> NULL,
     completionTime |-> NULL,
     waitingTime |-> 0,
     currentWaitStart |-> NULL,
     turnaroundTime |-> NULL,
     responseTime |-> NULL,
     quantumUsed |-> 0]

\* mutant: a blocked process may be terminated directly
validTransitions_waitingKill(oldState) ==
    CASE oldState = S_NEW -> {S_READY}
      [] oldState = S_READY -> {S_RUNNING, S_TERMINATED}
      [] oldState = S_RUNNING -> {S_READY, S_WAITING, S_TERMINATED}
      [] oldState = S_WAITING -> {S_READY, S_TERMINATED}
      [] oldState = S_TERMINATED -> {}

\* the validTransitions table of setState
validTransitions(oldState) ==
    CASE oldState = S_NEW -> {S_READY}
      [] oldState = S_READY -> {S_RUNNING, S_TERMINATED}
      [] oldState = S_RUNNING -> {S_READY, S_WAITING, S_TERMINATED}
      [] oldState = S_WAITING -> {S_READY}
      [] oldState = S_TERMINATED -> {}

\* mutant: responseTime is recorded at every entry into RUNNING
setState_responseEachRun(p, newState, time) ==
    IF newState \notin validTransitions(p.state) THEN p
    ELSE CASE newState = S_READY ->
                [p EXCEPT !.currentWaitStart = time, !.quantumUsed = 0,
                          !.state = S_READY]
           [] newState = S_RUNNING ->
                LET w == IF p.currentWaitStart # NULL
                           THEN [p EXCEPT !.waitingTime = @ + (time - p.currentWaitStart),
                                          !.currentWaitStart = NULL]
                           ELSE p
                IN [w EXCEPT !.startTime = IF @ = NULL THEN time ELSE @,
                             !.responseTime = time - p.arrivalTime,
                             !.state = S_RUNNING]
           [] newState = S_WAITING -> [p EXCEPT !.state = S_WAITING]
           [] newState = S_TERMINATED ->
                [p EXCEPT !.completionTime = time,
                          !.turnaroundTime = time - p.arrivalTime,
                          !.remainingTime = 0,
                          !.state = S_TERMINATED]
           [] OTHER -> [p EXCEPT !.state = newState]

\* mutant: the wait is counted from the start of an I/O, so the time spent
\* WAITING adds to waitingTime
setState_waitThroughIO(p, newState, time) ==
    IF newState \notin validTransitions(p.state) THEN p
    ELSE CASE newState = S_READY ->
                [p EXCEPT !.currentWaitStart = IF p.state = S_WAITING THEN @ ELSE time,
                          !.quantumUsed = 0,
                          !.state = S_READY]
           [] newState = S_RUNNING ->
                LET w == IF p.currentWaitStart # NULL
                           THEN [p EXCEPT !.waitingTime = @ + (time - p.currentWaitStart),
                                          !.currentWaitStart = NULL]
                           ELSE p
                    s == IF w.startTime = NULL
                           THEN [w EXCEPT !.startTime = time,
                                          !.responseTime = time - p.arrivalTime]
                           ELSE w
                IN [s EXCEPT !.state = S_RUNNING]
           [] newState = S_WAITING ->
                [p EXCEPT !.currentWaitStart = time, !.state = S_WAITING]
           [] newState = S_TERMINATED ->
                [p EXCEPT !.completionTime = time,
                          !.turnaroundTime = time - p.arrivalTime,
                          !.remainingTime = 0,
                          !.state = S_TERMINATED]
           [] OTHER -> [p EXCEPT !.state = newState]

\* the return value of setState
setStateAccepts(p, newState) == newState \in validTransitions(p.state)

\* the process after p.setState(newState, time)
setState(p, newState, time) ==
    IF ~setStateAccepts(p, newState) THEN p
    ELSE CASE newState = S_READY ->
                [p EXCEPT !.currentWaitStart = time, !.quantumUsed = 0,
                          !.state = S_READY]
           [] newState = S_RUNNING ->
                LET w == IF p.currentWaitStart # NULL
                           THEN [p EXCEPT !.waitingTime = @ + (time - p.currentWaitStart),
                                          !.currentWaitStart = NULL]
                           ELSE p
                    s == IF w.startTime = NULL
                           THEN [w EXCEPT !.startTime = time,
                                          !.responseTime = time - p.arrivalTime]
                           ELSE w
                IN [s EXCEPT !.state = S_RUNNING]
           [] newState = S_WAITING -> [p EXCEPT !.state = S_WAITING]
           [] newState = S_TERMINATED ->
                [p EXCEPT !.completionTime = time,
                          !.turnaroundTime = time - p.arrivalTime,
                          !.remainingTime = 0,
                          !.state = S_TERMINATED]
           [] OTHER -> [p EXCEPT !.state = newState]

\* the process after p.execute(timeSlice)
execute(p, timeSlice) ==
    LET actualTime == Min(timeSlice, p.remainingTime)
    IN [p EXCEPT !.remainingTime = @ - actualTime, !.quantumUsed = @ + actualTime]

\* mutant: the result reports completion with one unit still to run
executeCompleted_oneLeft(p) == p.remainingTime <= 1

\* result.completed of execute, on the process after it
executeCompleted(p) == p.remainingTime = 0

\* mutant: the I/O draw is taken whatever ioFrequency is
executeRequestsIO_anyFrequency(p, random) ==
    random < 50 /\ p.remainingTime > 0

\* result.requestsIO of execute, on the process after it; random is
\* Math.random() in percent
executeRequestsIO(p, random) ==
    p.ioFrequency > 0 /\ random < p.ioFrequency /\ p.remainingTime > 0

startIO(p, ioDuration) == [p EXCEPT !.ioRemaining = ioDuration]

\* the process after p.processIO(elapsed); it returns ioRemaining = 0
processIO(p, elapsed) == [p EXCEPT !.ioRemaining = Max(0, @ - elapsed)]

\* mutant: demotion without the cap
demote_uncapped(p, maxQueueLevel) ==
    [p EXCEPT !.queueLevel = @ + 1, !.quantumUsed = 0]

demote(p, maxQueueLevel) ==
    IF p.queueLevel < maxQueueLevel
      THEN [p EXCEPT !.queueLevel = @ + 1, !.quantumUsed = 0]
      ELSE p

promote(p) ==
    IF p.queueLevel > 0
      THEN [p EXCEPT !.queueLevel = @ - 1, !.quantumUsed = 0]
      ELSE p

\* JavaScript NaN
NaN == -2

\* p.toSnapshot() of the process at position id: a new object.  progress
\* is in whole percent, rounded down; 0 / 0 is NaN.
toSnapshot(p, id) ==
    [id |-> id,
     state |-> p.state,
     arrivalTime |-> p.arrivalTime,
     burstTime |-> p.burstTime,
     remainingTime |-> p.remainingTime,
     queueLevel |-> p.queueLevel,
     waitingTime |-> p.waitingTime,
     progress |-> IF p.burstTime = 0 THEN NaN
                  ELSE ((p.burstTime - p.remainingTime) * 100) \div p.burstTime]

\* Process.reset
processReset(p) ==
    [p EXCEPT !.remainingTime = p.burstTime,
              !.state = S_NEW,
              !.queueLevel = 0,
              !.startTime = NULL,
              !.completionTime = NULL,
              !.waitingTime = 0,
              !.currentWaitStart = NULL,
              !.turnaroundTime = NULL,
              !.responseTime = NULL,
              !.ioRemaining = 0,
              !.quantumUsed = 0]

----------------------------------------------------------------------------
(* strategies/*.js: a strategy object is a record *)

NoStrategy == [name |-> "none", timeQuantum |-> NULL, isPreemptive |-> FALSE,
               numQueues |-> 0, quantums |-> <<>>]

FCFSStrategy == [name |-> "FCFS", timeQuantum |-> NULL, isPreemptive |-> FALSE,
                 numQueues |-> 0, quantums |-> <<>>]

\* new SJFStrategy(preemptive)
SJFStrategy(preemptive) ==
    [name |-> IF preemptive THEN "SRTF" ELSE "SJF", timeQuantum |-> NULL,
     isPreemptive |-> preemptive, numQueues |-> 0, quantums |-> <<>>]

\* new RoundRobinStrategy(timeQuantum)
RoundRobinStrategy(timeQuantum) ==
    [name |-> "Round Robin", timeQuantum |-> timeQuantum, isPreemptive |-> TRUE,
     numQueues |-> 0, quantums |-> <<>>]

\* new MLFQStrategy(numQueues, quantums, boostInterval)
MLFQStrategy(numQueues, quantums, boostInterval) ==
    [name |-> "MLFQ", timeQuantum |-> quantums[1], isPreemptive |-> TRUE,
     numQueues |-> numQueues, quantums |-> quantums,
     boostInterval |-> boostInterval, timeSinceLastBoost |-> 0]

\* The position, in the sequence q of ids, of the element a stable ascending
\* sort by key puts first: the earliest element with the least key.
\* less(a, b) is "the comparator puts a strictly before b".
FirstOfSorted(q, less(_, _)) ==
    CHOOSE i \in 1..Len(q) :
        /\ \A j \in 1..Len(q) : ~less(q[j], q[i])
        /\ \A j \in 1..(i - 1) : less(q[i], q[j])

\* mutant: FCFS that takes the head of the ready queue
FCFS_selectNext_head(procs, queue) == queue[1]

\* FCFS that takes the latest arrival first
FCFS_selectNext_latest(procs, queue) ==
    LET less(a, b) == procs[a].arrivalTime > procs[b].arrivalTime
    IN queue[FirstOfSorted(queue, less)]

\* FCFSStrategy.selectNext: [...readyQueue].sort(by arrivalTime)[0]
FCFS_selectNext(procs, queue) ==
    LET less(a, b) == procs[a].arrivalTime < procs[b].arrivalTime
    IN queue[FirstOfSorted(queue, less)]

\* SJF that orders by arrivalTime alone
SJF_selectNext_byArrival(procs, queue) ==
    LET less(a, b) == procs[a].arrivalTime < procs[b].arrivalTime
    IN queue[FirstOfSorted(queue, less)]

\* SJFStrategy.selectNext: sort by remainingTime, then arrivalTime
SJF_selectNext(procs, queue) ==
    LET less(a, b) ==
            \/ procs[a].remainingTime < procs[b].remainingTime
            \/ /\ procs[a].remainingTime = procs[b].remainingTime
               /\ procs[a].arrivalTime < procs[b].arrivalTime
    IN queue[FirstOfSorted(queue, less)]

\* Round Robin that takes the back of the queue
RR_selectNext_last(procs, queue) == queue[Len(queue)]

\* RoundRobinStrategy.selectNext: readyQueue[0]
RR_selectNext(procs, queue) == queue[1]

\* MLFQStrategy.selectNext: the level the scan stops at
MLFQ_level(strat, procs, queue) ==
    LET levelOf(id) == Min(procs[id].queueLevel, strat.numQueues - 1)
        present == {levelOf(queue[i]) : i \in 1..Len(queue)}
    IN CHOOSE l \in present : \A m \in present : l <= m

\* mutant: the earliest-arrived ready process whatever its level
MLFQ_selectNext_byArrival(strat, procs, queue) ==
    LET less(a, b) == procs[a].arrivalTime < procs[b].arrivalTime
    IN queue[FirstOfSorted(queue, less)]

\* mutant: only the top queue is scanned; null when it is empty
MLFQ_selectNext_topOnly(strat, procs, queue) ==
    LET atLevel == SelectSeq(queue, LAMBDA id : procs[id].queueLevel = 0)
        less(a, b) == procs[a].arrivalTime < procs[b].arrivalTime
    IN IF Len(atLevel) = 0 THEN 0 ELSE atLevel[FirstOfSorted(atLevel, less)]

\* MLFQStrategy.selectNext: the process returned
MLFQ_selectNext(strat, procs, queue) ==
    LET levelOf(id) == Min(procs[id].queueLevel, strat.numQueues - 1)
        level == MLFQ_level(strat, procs, queue)
        atLevel == SelectSeq(queue, LAMBDA id : levelOf(id) = level)
        less(a, b) == procs[a].arrivalTime < procs[b].arrivalTime
    IN atLevel[FirstOfSorted(atLevel, less)]

\* strategy.selectNext(readyQueue, currentTime) on a non-empty queue: the id
\* returned (0 for null)
selectNext(strat, procs, queue) ==
    CASE strat.name = "FCFS" -> FCFS_selectNext(procs, queue)
      [] strat.name \in {"SJF", "SRTF"} -> SJF_selectNext(procs, queue)
      [] strat.name = "Round Robin" -> RR_selectNext(procs, queue)
      [] strat.name = "MLFQ" ->
            IF strat.numQueues > 0 THEN MLFQ_selectNext(strat, procs, queue) ELSE 0

\* the strategy object after selectNext: MLFQ sets this.timeQuantum
strategyAfterSelect(strat, procs, queue) ==
    IF strat.name = "MLFQ" /\ strat.numQueues > 0
      THEN [strat EXCEPT !.timeQuantum =
                strat.quantums[MLFQ_level(strat, procs, queue) + 1]]
      ELSE strat

\* mutant: non-preemptive SJF preempts for a shorter ready process, as SRTF does
shouldPreempt_SJFPreempts(strat, procs, running, queue, quantum) ==
    CASE strat.name = "FCFS" -> FALSE
      [] strat.name \in {"SJF", "SRTF"} ->
            /\ Len(queue) > 0
            /\ \E i \in 1..Len(queue) :
                   procs[queue[i]].remainingTime < procs[running].remainingTime
      [] strat.name = "Round Robin" -> quantum <= 0 /\ Len(queue) > 0
      [] strat.name = "MLFQ" ->
            \/ quantum <= 0
            \/ \E i \in 1..Len(queue) :
                   procs[queue[i]].queueLevel < procs[running].queueLevel

\* mutant: Round Robin preempts on quantum expiry with nobody waiting too
shouldPreempt_emptyQueue(strat, procs, running, queue, quantum) ==
    CASE strat.name = "FCFS" -> FALSE
      [] strat.name = "SJF" -> FALSE
      [] strat.name = "SRTF" ->
            /\ Len(queue) > 0
            /\ \E i \in 1..Len(queue) :
                   procs[queue[i]].remainingTime < procs[running].remainingTime
      [] strat.name = "Round Robin" -> quantum <= 0
      [] strat.name = "MLFQ" ->
            \/ quantum <= 0
            \/ \E i \in 1..Len(queue) :
                   procs[queue[i]].queueLevel < procs[running].queueLevel

\* mutant: SRTF preempts for a ready process of equal remaining time too
shouldPreempt_onEqual(strat, procs, running, queue, quantum) ==
    CASE strat.name = "FCFS" -> FALSE
      [] strat.name = "SJF" -> FALSE
      [] strat.name = "SRTF" ->
            /\ Len(queue) > 0
            /\ \E i \in 1..Len(queue) :
                   procs[queue[i]].remainingTime <= procs[running].remainingTime
      [] strat.name = "Round Robin" -> quantum <= 0 /\ Len(queue) > 0
      [] strat.name = "MLFQ" ->
            \/ quantum <= 0
            \/ \E i \in 1..Len(queue) :
                   procs[queue[i]].queueLevel < procs[running].queueLevel

\* strategy.shouldPreempt(runningProcess, readyQueue, quantumRemaining)
shouldPreempt(strat, procs, running, queue, quantum) ==
    CASE strat.name = "FCFS" -> FALSE
      [] strat.name = "SJF" -> FALSE
      [] strat.name = "SRTF" ->
            /\ Len(queue) > 0
            /\ \E i \in 1..Len(queue) :
                   procs[queue[i]].remainingTime < procs[running].remainingTime
      [] strat.name = "Round Robin" -> quantum <= 0 /\ Len(queue) > 0
      [] strat.name = "MLFQ" ->
            \/ quantum <= 0
            \/ \E i \in 1..Len(queue) :
                   procs[queue[i]].queueLevel < procs[running].queueLevel

\* MLFQStrategy.performBoost(allProcesses): the strategy and the processes
\* after it.  No method of Scheduler calls it.
performBoost(strat, allProcesses) ==
    [strategy |-> [strat EXCEPT !.timeSinceLastBoost = 0],
     processes |-> [i \in DOMAIN allProcesses |->
                      [allProcesses[i] EXCEPT !.queueLevel = 0, !.quantumUsed = 0]]]

\* MLFQStrategy.isBoostDue.  No method of Scheduler calls it.
isBoostDue(strat) == strat.timeSinceLastBoost >= strat.boostInterval

\* MLFQStrategy.updateTime(elapsed).  No method of Scheduler calls it.
updateTime(strat, elapsed) == [strat EXCEPT !.timeSinceLastBoost = @ + elapsed]

\* MLFQStrategy.onProcessAdmit; the base class's hook does nothing
onProcessAdmit(strat, p) ==
    IF strat.name = "MLFQ" THEN [p EXCEPT !.queueLevel = 0, !.quantumUsed = 0] ELSE p

----------------------------------------------------------------------------
(* Scheduler.js: the engine as a record e of its fields, each method as *)
(* the engine after the call *)

Engine ==
    [strategy |-> strategy, processes |-> processes, readyQueue |-> readyQueue,
     waitingQueue |-> waitingQueue, runningProcess |-> runningProcess,
     completedProcesses |-> completedProcesses, currentTime |-> currentTime,
     isContextSwitching |-> isContextSwitching,
     contextSwitchOverhead |-> contextSwitchOverhead, ganttChart |-> ganttChart,
     metrics |-> metrics, quantumRemaining |-> quantumRemaining,
     ioRequested |-> ioRequested]

\* new Scheduler(strategy), then scheduler.contextSwitchOverhead = overhead
Scheduler(strat, overhead) ==
    [strategy |-> strat, processes |-> <<>>, readyQueue |-> <<>>,
     waitingQueue |-> <<>>, runningProcess |-> 0, completedProcesses |-> <<>>,
     currentTime |-> 0, isContextSwitching |-> FALSE,
     contextSwitchOverhead |-> overhead, ganttChart |-> <<>>,
     metrics |-> [totalIdleTime |-> 0, totalContextSwitches |-> 0,
                  processesCompleted |-> 0],
     quantumRemaining |-> 0, ioRequested |-> <<>>]

\* array.filter(p => p.id !== id)
Without(queue, id) == SelectSeq(queue, LAMBDA x : x # id)

\* `value || Infinity` of a quantum
OrInfinity(value) == IF value = NULL \/ value = 0 THEN Infinity ELSE value

setStrategy(e, strat) ==
    IF strat # NoStrategy /\ strat.timeQuantum # NULL /\ strat.timeQuantum # 0
      THEN [e EXCEPT !.strategy = strat, !.quantumRemaining = strat.timeQuantum]
      ELSE [e EXCEPT !.strategy = strat]

admitProcess(e, id) ==
    IF e.processes[id].state = S_NEW
      THEN LET ready == setState(e.processes[id], S_READY, e.currentTime)
               admitted == IF e.strategy # NoStrategy
                             THEN onProcessAdmit(e.strategy, ready)
                             ELSE ready
           IN [e EXCEPT !.processes[id] = admitted,
                        !.readyQueue = Append(@, id)]
      ELSE e

\* addProcess(process), process just constructed
addProcess(e, p) ==
    LET id == Len(e.processes) + 1
        pushed == [e EXCEPT !.processes = Append(@, p),
                            !.ioRequested = Append(@, 0)]
    IN IF p.arrivalTime <= e.currentTime THEN admitProcess(pushed, id) ELSE pushed

killProcess(e, id) ==
    LET filtered == [e EXCEPT !.readyQueue = Without(@, id),
                              !.waitingQueue = Without(@, id)]
        freed == IF filtered.runningProcess # 0 /\ filtered.runningProcess = id
                   THEN [filtered EXCEPT
                            !.processes[id] = setState(@, S_TERMINATED, e.currentTime),
                            !.runningProcess = 0]
                   ELSE filtered
    IN IF id \in 1..Len(freed.processes) /\ freed.processes[id].state # S_TERMINATED
         THEN [freed EXCEPT
                  !.processes[id] = setState(@, S_TERMINATED, e.currentTime),
                  !.completedProcesses = Append(@, id)]
         ELSE freed

\* mutant: the process is made to wait but its I/O countdown is not started
injectIOInterrupt_noCountdown(e, ioDuration) ==
    IF e.runningProcess # 0
      THEN LET id == e.runningProcess
               waiting == setState(e.processes[id], S_WAITING, e.currentTime)
               promoted == IF e.strategy # NoStrategy /\ e.strategy.name = "MLFQ"
                             THEN promote(waiting) ELSE waiting
           IN [e EXCEPT !.processes[id] = promoted,
                        !.waitingQueue = Append(@, id),
                        !.runningProcess = 0,
                        !.ioRequested[id] = @ + ioDuration]
      ELSE e

injectIOInterrupt(e, ioDuration) ==
    IF e.runningProcess # 0
      THEN LET id == e.runningProcess
               waiting == startIO(setState(e.processes[id], S_WAITING, e.currentTime),
                                  ioDuration)
               promoted == IF e.strategy # NoStrategy /\ e.strategy.name = "MLFQ"
                             THEN promote(waiting) ELSE waiting
           IN [e EXCEPT !.processes[id] = promoted,
                        !.waitingQueue = Append(@, id),
                        !.runningProcess = 0,
                        !.ioRequested[id] = @ + ioDuration]
      ELSE e

\* mutant: the switch is recorded in the trace but not counted
performContextSwitchBegin_uncounted(e) ==
    [e EXCEPT !.isContextSwitching = TRUE,
              !.ganttChart = Append(@, [type |-> "context_switch", processId |-> 0,
                                        startTime |-> e.currentTime,
                                        endTime |-> e.currentTime + e.contextSwitchOverhead])]

\* the part of performContextSwitch before `await this.delay(...)`
performContextSwitchBegin(e) ==
    [e EXCEPT !.isContextSwitching = TRUE,
              !.metrics.totalContextSwitches = @ + 1,
              !.ganttChart = Append(@, [type |-> "context_switch", processId |-> 0,
                                        startTime |-> e.currentTime,
                                        endTime |-> e.currentTime + e.contextSwitchOverhead])]

\* mutant: the clock is not advanced by the context-switch overhead
performContextSwitchEnd_timeKept(e) == [e EXCEPT !.isContextSwitching = FALSE]

\* the part of performContextSwitch after the await
performContextSwitchEnd(e) ==
    [e EXCEPT !.currentTime = @ + e.contextSwitchOverhead,
              !.isContextSwitching = FALSE]

\* mutant: under MLFQ every preemption demotes, whatever is left of the quantum
handlePreemption_alwaysDemotes(e) ==
    IF e.runningProcess = 0 THEN e
    ELSE LET id == e.runningProcess
             demoted == IF e.strategy.name = "MLFQ"
                          THEN demote(e.processes[id], DemoteMaxLevel)
                          ELSE e.processes[id]
         IN [e EXCEPT !.processes[id] = setState(demoted, S_READY, e.currentTime),
                      !.readyQueue = Append(@, id),
                      !.runningProcess = 0]

\* mutant: the preempted process is requeued but the running slot is not cleared
handlePreemption_keepsSlot(e) ==
    IF e.runningProcess = 0 THEN e
    ELSE LET id == e.runningProcess
         IN [e EXCEPT !.processes[id] = setState(@, S_READY, e.currentTime),
                      !.readyQueue = Append(@, id)]

handlePreemption(e) ==
    IF e.runningProcess = 0 THEN e
    ELSE LET id == e.runningProcess
             demoted == IF e.strategy.name = "MLFQ" /\ e.quantumRemaining <= 0
                          THEN demote(e.processes[id], DemoteMaxLevel)
                          ELSE e.processes[id]
         IN [e EXCEPT !.processes[id] = setState(demoted, S_READY, e.currentTime),
                      !.readyQueue = Append(@, id),
                      !.runningProcess = 0]

\* the loop of checkArrivals, from position i of this.processes on
RECURSIVE checkArrivalsFrom(_, _)
checkArrivalsFrom(e, i) ==
    IF i > Len(e.processes) THEN e
    ELSE checkArrivalsFrom(
             IF e.processes[i].state = S_NEW /\ e.processes[i].arrivalTime <= e.currentTime
               THEN admitProcess(e, i) ELSE e,
             i + 1)

\* mutant: a process is admitted only by a step that starts exactly at its
\* arrivalTime
RECURSIVE checkArrivalsExactFrom(_, _)
checkArrivalsExactFrom(e, i) ==
    IF i > Len(e.processes) THEN e
    ELSE checkArrivalsExactFrom(
             IF e.processes[i].state = S_NEW /\ e.processes[i].arrivalTime = e.currentTime
               THEN admitProcess(e, i) ELSE e,
             i + 1)

checkArrivals_exactTime(e) == checkArrivalsExactFrom(e, 1)

checkArrivals(e) == checkArrivalsFrom(e, 1)

\* the first loop of checkIOCompletions, from position i of the waiting
\* queue on: processIO(1) on each process, those it reports done collected
\* in completedIO
RECURSIVE processWaitingIO(_, _, _)
processWaitingIO(e, i, completedIO) ==
    IF i > Len(e.waitingQueue) THEN [engine |-> e, completedIO |-> completedIO]
    ELSE LET id == e.waitingQueue[i]
             ticked == processIO(e.processes[id], 1)
         IN processWaitingIO([e EXCEPT !.processes[id] = ticked], i + 1,
                             IF ticked.ioRemaining = 0
                               THEN Append(completedIO, id) ELSE completedIO)

\* the second loop of checkIOCompletions, over the ids of completedIO
RECURSIVE moveCompletedIO(_, _)
moveCompletedIO(e, completedIO) ==
    IF completedIO = <<>> THEN e
    ELSE LET id == Head(completedIO)
         IN moveCompletedIO(
                [e EXCEPT !.waitingQueue = Without(@, id),
                          !.processes[id] = setState(@, S_READY, e.currentTime),
                          !.readyQueue = Append(@, id)],
                Tail(completedIO))

\* mutant: a process whose I/O completed is made READY and queued as ready
\* but stays in the waiting queue
checkIOCompletions_keepsWaiting(e) ==
    LET ticked == processWaitingIO(e, 1, <<>>)
    IN [moveCompletedIO(ticked.engine, ticked.completedIO)
           EXCEPT !.waitingQueue = e.waitingQueue]

checkIOCompletions(e) ==
    LET ticked == processWaitingIO(e, 1, <<>>)
    IN moveCompletedIO(ticked.engine, ticked.completedIO)

\* mutant: the policy selects from the ready queue as the step found it;
\* arrivals and I/O completions are handled after the selection
stepBegin_admitsLast(e) ==
    IF e.runningProcess = 0 /\ Len(e.readyQueue) > 0
      THEN LET nextProcess == selectNext(e.strategy, e.processes, e.readyQueue)
               selected == [e EXCEPT !.strategy =
                               strategyAfterSelect(e.strategy, e.processes, e.readyQueue)]
           IN IF nextProcess # 0
                THEN [engine |-> performContextSwitchBegin(
                                     checkIOCompletions(checkArrivals(
                                         [selected EXCEPT !.readyQueue =
                                                             Without(@, nextProcess)]))),
                      nextProcess |-> nextProcess]
                ELSE [engine |-> checkIOCompletions(checkArrivals(selected)),
                      nextProcess |-> 0]
      ELSE [engine |-> checkIOCompletions(checkArrivals(e)), nextProcess |-> 0]

\* step(), phases 1-3 up to the await inside performContextSwitch: the engine
\* there and the process selected (0 when nothing is dispatched)
stepBegin(e) ==
    LET arrived == checkIOCompletions(checkArrivals(e))
    IN IF arrived.runningProcess = 0 /\ Len(arrived.readyQueue) > 0
         THEN LET nextProcess == selectNext(arrived.strategy, arrived.processes,
                                            arrived.readyQueue)
                  selected == [arrived EXCEPT !.strategy =
                                  strategyAfterSelect(arrived.strategy, arrived.processes,
                                                      arrived.readyQueue)]
              IN IF nextProcess # 0
                   THEN [engine |-> performContextSwitchBegin(
                                        [selected EXCEPT !.readyQueue =
                                                            Without(@, nextProcess)]),
                         nextProcess |-> nextProcess]
                   ELSE [engine |-> selected, nextProcess |-> 0]
         ELSE [engine |-> arrived, nextProcess |-> 0]

\* step(), the rest of phase 3 after the await: the selected process starts running
stepDispatch(e, nextProcess) ==
    IF nextProcess = 0 THEN e
    ELSE LET switched == performContextSwitchEnd(e)
         IN [switched EXCEPT
                !.runningProcess = nextProcess,
                !.processes[nextProcess] = setState(@, S_RUNNING, switched.currentTime),
                !.quantumRemaining = OrInfinity(switched.strategy.timeQuantum)]

\* step(), phase 4: execute one unit or idle.  random is the Math.random() of
\* execute (in percent), ioRandom the Math.floor(Math.random() * 5) of the
\* I/O duration.
stepExecute(e, random, ioRandom) ==
    IF e.runningProcess # 0
      THEN LET id == e.runningProcess
               executed == execute(e.processes[id], 1)
               ran == [e EXCEPT
                          !.processes[id] = executed,
                          !.ganttChart = Append(@, [type |-> "execution", processId |-> id,
                                                    startTime |-> e.currentTime,
                                                    endTime |-> e.currentTime + 1]),
                          !.currentTime = @ + 1,
                          !.quantumRemaining = IF @ = Infinity THEN @ ELSE @ - 1]
           IN IF executeCompleted(executed)
                THEN [ran EXCEPT
                         !.processes[id] = setState(@, S_TERMINATED, ran.currentTime),
                         !.completedProcesses = Append(@, id),
                         !.metrics.processesCompleted = @ + 1,
                         !.runningProcess = 0]
              ELSE IF executeRequestsIO(executed, random)
                THEN injectIOInterrupt(ran, IOMin + ioRandom)
              ELSE IF shouldPreempt(ran.strategy, ran.processes, id, ran.readyQueue,
                                    ran.quantumRemaining)
                THEN handlePreemption(ran)
              ELSE ran
      ELSE [e EXCEPT
               !.metrics.totalIdleTime = @ + 1,
               !.ganttChart = Append(@, [type |-> "idle", processId |-> 0,
                                         startTime |-> e.currentTime,
                                         endTime |-> e.currentTime + 1]),
               !.currentTime = @ + 1]

\* step() throws 'No scheduling strategy set!' before it does anything
stepThrows(e) == e.strategy = NoStrategy

\* mutant: the call idles for one time unit before it throws
step_idleBeforeThrow(e, random, ioRandom) ==
    IF stepThrows(e)
      THEN [e EXCEPT !.currentTime = @ + 1, !.metrics.totalIdleTime = @ + 1]
      ELSE LET begun == stepBegin(e)
           IN stepExecute(stepDispatch(begun.engine, begun.nextProcess), random, ioRandom)

\* mutant: an idle step records its trace entry without counting the idle time
step_idleUncounted(e, random, ioRandom) ==
    IF stepThrows(e)
      THEN e
      ELSE LET begun == stepBegin(e)
               dispatched == stepDispatch(begun.engine, begun.nextProcess)
           IN IF dispatched.runningProcess = 0
                THEN [dispatched EXCEPT
                         !.ganttChart = Append(@, [type |-> "idle", processId |-> 0,
                                                   startTime |-> dispatched.currentTime,
                                                   endTime |-> dispatched.currentTime + 1]),
                         !.currentTime = @ + 1]
                ELSE stepExecute(dispatched, random, ioRandom)

\* the engine after one whole step(): as it was when the call throws
step(e, random, ioRandom) ==
    IF stepThrows(e)
      THEN e
      ELSE LET begun == stepBegin(e)
           IN stepExecute(stepDispatch(begun.engine, begun.nextProcess), random, ioRandom)

isComplete(e) ==
    /\ Len(e.processes) > 0
    /\ \A i \in 1..Len(e.processes) : e.processes[i].state = S_TERMINATED

\* mutant: the waiting queue is not cleared
reset_keepsWaiting(e) ==
    checkArrivals(
        [e EXCEPT !.currentTime = 0,
                  !.isContextSwitching = FALSE,
                  !.runningProcess = 0,
                  !.readyQueue = <<>>,
                  !.completedProcesses = <<>>,
                  !.ganttChart = <<>>,
                  !.quantumRemaining = 0,
                  !.metrics = [totalIdleTime |-> 0, totalContextSwitches |-> 0,
                               processesCompleted |-> 0],
                  !.processes = [i \in DOMAIN e.processes |-> processReset(e.processes[i])],
                  !.ioRequested = [i \in DOMAIN e.ioRequested |-> 0]])

reset(e) ==
    checkArrivals(
        [e EXCEPT !.currentTime = 0,
                  !.isContextSwitching = FALSE,
                  !.runningProcess = 0,
                  !.readyQueue = <<>>,
                  !.waitingQueue = <<>>,
                  !.completedProcesses = <<>>,
                  !.ganttChart = <<>>,
                  !.quantumRemaining = 0,
                  !.metrics = [totalIdleTime |-> 0, totalContextSwitches |-> 0,
                               processesCompleted |-> 0],
                  !.processes = [i \in DOMAIN e.processes |-> processReset(e.processes[i])],
                  !.ioRequested = [i \in DOMAIN e.ioRequested |-> 0]])

clear(e) == reset([e EXCEPT !.processes = <<>>, !.ioRequested = <<>>])

RECURSIVE Sum(_)
Sum(numbers) == IF numbers = <<>> THEN 0 ELSE Head(numbers) + Sum(Tail(numbers))

\* (numerator / denominator).toFixed(digits) as a whole number of units of
\* 10^-digits (scale = 10^digits), rounded to the nearest
ToFixed(numerator, denominator, scale) ==
    (2 * numerator * scale + denominator) \div (2 * denominator)

\* mutant: idle time is counted as busy time
busyTime_idleAdded(e) ==
    LET totalTime == IF e.currentTime = 0 THEN 1 ELSE e.currentTime
    IN totalTime + e.metrics.totalIdleTime
           - e.metrics.totalContextSwitches * e.contextSwitchOverhead

\* busyTime of calculateMetrics
busyTime(e) ==
    LET totalTime == IF e.currentTime = 0 THEN 1 ELSE e.currentTime
    IN totalTime - e.metrics.totalIdleTime
           - e.metrics.totalContextSwitches * e.contextSwitchOverhead

\* mutant: no early return; with nothing completed the averages are 0 but
\* cpuUtilization is computed from the clock
calculateMetrics_noEarlyReturn(e) ==
    LET completed == SelectSeq([i \in 1..Len(e.processes) |-> i],
                               LAMBDA i : e.processes[i].state = S_TERMINATED)
        n == Len(completed)
        totalTime == IF e.currentTime = 0 THEN 1 ELSE e.currentTime
        orZero(value) == IF value = NULL THEN 0 ELSE value
        count == IF n = 0 THEN 1 ELSE n
    IN [avgWaitingTime |->
            ToFixed(Sum([k \in 1..n |-> e.processes[completed[k]].waitingTime]),
                    count, 100),
        avgTurnaroundTime |->
            ToFixed(Sum([k \in 1..n |-> e.processes[completed[k]].turnaroundTime]),
                    count, 100),
        avgResponseTime |->
            ToFixed(Sum([k \in 1..n |->
                            orZero(e.processes[completed[k]].responseTime)]),
                    count, 100),
        cpuUtilization |-> ToFixed(Max(0, busyTime(e)) * 100, totalTime, 10),
        throughput |-> ToFixed(n, totalTime, 1000),
        contextSwitches |-> e.metrics.totalContextSwitches]

\* calculateMetrics(): the averages in hundredths, cpuUtilization in tenths
\* of a percent, throughput in thousandths
calculateMetrics(e) ==
    LET completed == SelectSeq([i \in 1..Len(e.processes) |-> i],
                               LAMBDA i : e.processes[i].state = S_TERMINATED)
        n == Len(completed)
        totalTime == IF e.currentTime = 0 THEN 1 ELSE e.currentTime
        orZero(value) == IF value = NULL THEN 0 ELSE value
    IN IF n = 0
         THEN [avgWaitingTime |-> 0, avgTurnaroundTime |-> 0, avgResponseTime |-> 0,
               cpuUtilization |-> 0, throughput |-> 0,
               contextSwitches |-> e.metrics.totalContextSwitches]
         ELSE [avgWaitingTime |->
                   ToFixed(Sum([k \in 1..n |-> e.processes[completed[k]].waitingTime]),
                           n, 100),
               avgTurnaroundTime |->
                   ToFixed(Sum([k \in 1..n |-> e.processes[completed[k]].turnaroundTime]),
                           n, 100),
               avgResponseTime |->
                   ToFixed(Sum([k \in 1..n |->
                                   orZero(e.processes[completed[k]].responseTime)]),
                           n, 100),
               cpuUtilization |-> ToFixed(Max(0, busyTime(e)) * 100, totalTime, 10),
               throughput |-> ToFixed(n, totalTime, 1000),
               contextSwitches |-> e.metrics.totalContextSwitches]

\* getState(): every field is built anew by the call, except ganttChart,
\* which is the engine's own array (see `snapshot`)
getState(e) ==
    LET view(queue) == [i \in 1..Len(queue) |-> toSnapshot(e.processes[queue[i]], queue[i])]
    IN [currentTime |-> e.currentTime,
        isContextSwitching |-> e.isContextSwitching,
        runningProcess |-> IF e.runningProcess # 0
                             THEN <<toSnapshot(e.processes[e.runningProcess],
                                               e.runningProcess)>>
                             ELSE <<>>,
        readyQueue |-> view(e.readyQueue),
        waitingQueue |-> view(e.waitingQueue),
        completedProcesses |-> view(e.completedProcesses),
        allProcesses |-> [i \in 1..Len(e.processes) |-> toSnapshot(e.processes[i], i)],
        ganttChart |-> e.ganttChart,
        metrics |-> calculateMetrics(e),
        strategy |-> IF e.strategy # NoStrategy
                       THEN <<[name |-> e.strategy.name,
                               timeQuantum |-> e.strategy.timeQuantum]>>
                       ELSE <<>>,
        quantumRemaining |-> e.quantumRemaining]

----------------------------------------------------------------------------
(* The engine driven by its callers (hooks/useScheduler.js), one call at a *)
(* time: each action is one whole call *)

\* the history levelSince after a call that leaves the engine e: a process
\* at level 0 has none (NULL), a process that was already above level 0
\* keeps its time, a process the call demoted gets the time the call ended at
levelSinceAfter(e) ==
    [id \in 1..Len(e.processes) |->
        IF e.processes[id].queueLevel = 0 THEN NULL
        ELSE IF id \in DOMAIN levelSince /\ levelSince[id] # NULL
          THEN levelSince[id]
        ELSE e.currentTime]

Commit(e) ==
    /\ levelSince' = levelSinceAfter(e)
    /\ strategy' = e.strategy
    /\ processes' = e.processes
    /\ readyQueue' = e.readyQueue
    /\ waitingQueue' = e.waitingQueue
    /\ runningProcess' = e.runningProcess
    /\ completedProcesses' = e.completedProcesses
    /\ currentTime' = e.currentTime
    /\ isContextSwitching' = e.isContextSwitching
    /\ contextSwitchOverhead' = e.contextSwitchOverhead
    /\ ganttChart' = e.ganttChart
    /\ metrics' = e.metrics
    /\ quantumRemaining' = e.quantumRemaining
    /\ ioRequested' = e.ioRequested

Holds(e) ==
    /\ levelSince = [id \in 1..Len(e.processes) |-> NULL]
    /\ strategy = e.strategy
    /\ processes = e.processes
    /\ readyQueue = e.readyQueue
    /\ waitingQueue = e.waitingQueue
    /\ runningProcess = e.runningProcess
    /\ completedProcesses = e.completedProcesses
    /\ currentTime = e.currentTime
    /\ isContextSwitching = e.isContextSwitching
    /\ contextSwitchOverhead = e.contextSwitchOverhead
    /\ ganttChart = e.ganttChart
    /\ metrics = e.metrics
    /\ quantumRemaining = e.quantumRemaining
    /\ ioRequested = e.ioRequested

\* no snapshot is held
NoSnapshot == [taken |-> FALSE]

\* the strategies setAlgorithm can build, with small quanta
MLFQQuantums == <<1, 2, 3>>
Strategies ==
    {FCFSStrategy, SJFStrategy(FALSE), SJFStrategy(TRUE), MLFQStrategy(3, MLFQQuantums, MLFQBoostInterval)}
        \cup {RoundRobinStrategy(q) : q \in 1..MaxQuantum}

\* the values Math.random() < ioFrequency can tell apart, in percent
Randoms == {0, 99}
IOFrequencies == {0, 50}
\* the values of Math.floor(Math.random() * 5) tried: the least and the greatest
IORandoms == {0, IOSpan - 1}

\* the draws that can matter to the next step(): none does unless some
\* process has ioFrequency > 0
StepRandoms ==
    IF \E i \in 1..Len(processes) : processes[i].ioFrequency > 0
      THEN Randoms \X IORandoms ELSE {<<0, 0>>}

Init ==
    /\ \E overhead \in 0..MaxOverhead, strat \in Strategies \cup {NoStrategy} :
           Holds(Scheduler(strat, overhead))
    /\ calls = 0
    /\ awaiting = <<>>
    /\ snapshot = NoSnapshot

\* a control call, counted
Call(e) == calls < MaxCalls /\ calls' = calls + 1 /\ Commit(e)
    /\ UNCHANGED <<awaiting, snapshot>>

SetStrategy(strat) == Call(setStrategy(Engine, strat))

AddProcess(arrivalTime, burstTime, ioFrequency) ==
    /\ Len(processes) < MaxProcs
    /\ Commit(addProcess(Engine, Process(arrivalTime, burstTime, ioFrequency)))
    /\ UNCHANGED <<calls, awaiting, snapshot>>

Step(random, ioRandom) ==
    /\ currentTime < MaxTime
    /\ Commit(step(Engine, random, ioRandom))
    /\ UNCHANGED <<calls, awaiting, snapshot>>

KillProcess(id) == Call(killProcess(Engine, id))

InjectIOInterrupt(ioDuration) == Call(injectIOInterrupt(Engine, ioDuration))

Reset == Commit(reset(Engine)) /\ UNCHANGED <<calls, awaiting, snapshot>>

Clear == Commit(clear(Engine)) /\ UNCHANGED <<calls, awaiting, snapshot>>

Next ==
    \/ \E strat \in Strategies : SetStrategy(strat)
    \/ \E a \in 0..MaxArrival, b \in 1..MaxBurst, f \in IOFrequencies : AddProcess(a, b, f)
    \/ \E draw \in StepRandoms : Step(draw[1], draw[2])
    \/ \E id \in 1..Len(processes) : KillProcess(id)
    \/ \E d \in 1..MaxInjectIO : InjectIOInterrupt(d)
    \/ Reset
    \/ Clear

Spec == Init /\ [][Next]_vars

----------------------------------------------------------------------------
(* Scheduler.run: a workload is added to a fresh engine, then step() is *)
(* called until isComplete() *)

ProcessConfigs ==
    [arrivalTime : 0..MaxArrival, burstTime : 1..MaxBurst, ioFrequency : IOFrequencies]

\* every workload of at most MaxProcs processes
SmallWorkloads ==
    UNION {[1..n -> ProcessConfigs] : n \in 1..MaxProcs}

\* n processes of equal burst arriving together, no I/O
EqualWorkloads ==
    {[i \in 1..n |-> [arrivalTime |-> a, burstTime |-> b, ioFrequency |-> 0]] :
        n \in 1..MaxEqualProcs, b \in 2..MaxEqualBurst, a \in 0..MaxArrival}

\* the convoy workload: A(arrival 0, burst 10), B(1, 2), C(2, 1)
ConvoyWorkload ==
    <<[arrivalTime |-> 0, burstTime |-> 10, ioFrequency |-> 0],
      [arrivalTime |-> 1, burstTime |-> 2, ioFrequency |-> 0],
      [arrivalTime |-> 2, burstTime |-> 1, ioFrequency |-> 0]>>

\* the starvation workload: a burst-50 process at 0 and a burst-2 process
\* every 5 time units, the first of them at firstShort
StarvationWorkload(firstShort) ==
    <<[arrivalTime |-> 0, burstTime |-> 50, ioFrequency |-> 0]>> \o
    [i \in 1..8 |-> [arrivalTime |-> firstShort + 5 * (i - 1), burstTime |-> 2,
                     ioFrequency |-> 0]]

\* one pure CPU-bound process on its own
CPUBoundWorkload ==
    <<[arrivalTime |-> 0, burstTime |-> CPUBoundBurst, ioFrequency |-> 0]>>

\* the 'balanced' demo of loadDemo: P1(0, 8), P2(1, 4), P3(2, 9), P4(3, 5)
BalancedWorkload ==
    <<[arrivalTime |-> 0, burstTime |-> 8, ioFrequency |-> 0],
      [arrivalTime |-> 1, burstTime |-> 4, ioFrequency |-> 0],
      [arrivalTime |-> 2, burstTime |-> 9, ioFrequency |-> 0],
      [arrivalTime |-> 3, burstTime |-> 5, ioFrequency |-> 0]>>

\* processes added in another order than they arrive: the second and the
\* third can be admitted by one checkArrivals, in the order they were added
UnorderedWorkload ==
    <<[arrivalTime |-> 0, burstTime |-> 3, ioFrequency |-> 0],
      [arrivalTime |-> 2, burstTime |-> 1, ioFrequency |-> 0],
      [arrivalTime |-> 1, burstTime |-> 1, ioFrequency |-> 0],
      [arrivalTime |-> 1, burstTime |-> 2, ioFrequency |-> 0]>>

Workloads ==
    SmallWorkloads \cup EqualWorkloads
        \cup {ConvoyWorkload, StarvationWorkload(0), StarvationWorkload(5),
              CPUBoundWorkload, BalancedWorkload, UnorderedWorkload}

\* addProcess(new Process(config)) for each config of the workload, in order
RECURSIVE addAll(_, _)
addAll(e, workload) ==
    IF Len(workload) = 0 THEN e
    ELSE addAll(addProcess(e, Process(workload[1].arrivalTime, workload[1].burstTime,
                                      workload[1].ioFrequency)),
                [i \in 1..(Len(workload) - 1) |-> workload[i + 1]])

InitRun ==
    /\ \E strat \in Strategies, overhead \in 0..MaxOverhead, workload \in Workloads :
           Holds(addAll(Scheduler(strat, overhead), workload))
    /\ calls = 0
    /\ awaiting = <<>>
    /\ snapshot = NoSnapshot

\* one iteration of the loop of run()
RunStep(random, ioRandom) ==
    /\ ~isComplete(Engine)
    /\ currentTime < MaxRunTime
    /\ Commit(step(Engine, random, ioRandom))
    /\ UNCHANGED <<calls, awaiting, snapshot>>

NextRun == \E draw \in StepRandoms : RunStep(draw[1], draw[2])

SpecRun == InitRun /\ [][NextRun]_vars

----------------------------------------------------------------------------
(* The engine with step() as the async function it is: a step() that *)
(* dispatches suspends at `await this.delay(...)` inside *)
(* performContextSwitch (a setTimeout, also for a delay of 0 ms) and the *)
(* event loop runs other callbacks of useScheduler until its timer fires. *)
(* Of these the model takes step, addProcess, killProcess, injectIO and *)
(* reset. *)

\* step() up to its first suspension: a call that dispatches nothing has no
\* await on its path and runs to its end
StepBegin(random, ioRandom) ==
    /\ strategy # NoStrategy
    /\ currentTime < MaxAsyncTime
    /\ Len(awaiting) < MaxSuspended
    /\ LET begun == stepBegin(Engine)
       IN IF begun.nextProcess = 0
            THEN /\ Commit(stepExecute(begun.engine, random, ioRandom))
                 /\ UNCHANGED awaiting
            ELSE /\ Commit(begun.engine)
                 /\ awaiting' = Append(awaiting, begun.nextProcess)
    /\ UNCHANGED <<calls, snapshot>>

\* the timer of the oldest suspended step() fires: the call runs to its end
StepResume(random, ioRandom) ==
    /\ awaiting # <<>>
    /\ Commit(stepExecute(stepDispatch(Engine, Head(awaiting)), random, ioRandom))
    /\ awaiting' = Tail(awaiting)
    /\ UNCHANGED <<calls, snapshot>>

NextAsync ==
    \/ \E a \in 0..MaxArrival, b \in 1..MaxBurst, f \in IOFrequencies : AddProcess(a, b, f)
    \/ \E draw \in StepRandoms : StepBegin(draw[1], draw[2])
    \/ \E draw \in StepRandoms : StepResume(draw[1], draw[2])
    \/ \E id \in 1..Len(processes) : KillProcess(id)
    \/ \E d \in 1..MaxInjectIO : InjectIOInterrupt(d)
    \/ Reset

SpecAsync == Init /\ [][NextAsync]_vars

----------------------------------------------------------------------------
(* A caller that holds on to a snapshot.  snapshot.state is what the held *)
(* object reads; snapshot.sharesTrace tells whether its ganttChart is still *)
(* the array the engine appends to (getState() hands out this.ganttChart *)
(* itself; reset() gives the engine a new array). *)

InitSnapshot ==
    /\ \E strat \in Strategies, overhead \in 0..MaxOverhead, workload \in SmallWorkloads :
           Holds(addAll(Scheduler(strat, overhead), workload))
    /\ calls = 0
    /\ awaiting = <<>>
    /\ snapshot = NoSnapshot

\* what the held snapshot reads after a call that leaves the engine e and
\* appended to the trace in place
snapshotAfterPush(e) ==
    IF snapshot.taken /\ snapshot.sharesTrace
      THEN [snapshot EXCEPT !.state.ganttChart = e.ganttChart]
      ELSE snapshot

\* the caller calls getState() and holds the result
GetState ==
    /\ snapshot' = [taken |-> TRUE, state |-> getState(Engine), sharesTrace |-> TRUE]
    /\ UNCHANGED <<strategy, processes, readyQueue, waitingQueue, runningProcess,
                   completedProcesses, currentTime, isContextSwitching,
                   contextSwitchOverhead, ganttChart, metrics, quantumRemaining,
                   ioRequested, levelSince, awaiting, calls>>

\* step(): the caller holds its result (keep) or goes on holding the
\* snapshot it had
SnapshotStep(random, ioRandom, keep) ==
    /\ ~isComplete(Engine)
    /\ currentTime < MaxTime
    /\ LET after == step(Engine, random, ioRandom)
       IN /\ Commit(after)
          /\ snapshot' = IF keep
                            THEN [taken |-> TRUE, state |-> getState(after),
                                  sharesTrace |-> TRUE]
                            ELSE snapshotAfterPush(after)
    /\ UNCHANGED <<calls, awaiting>>

\* reset(): this.ganttChart = [] leaves the old array to the snapshot
SnapshotReset ==
    /\ calls < MaxCalls
    /\ calls' = calls + 1
    /\ Commit(reset(Engine))
    /\ snapshot' = IF snapshot.taken THEN [snapshot EXCEPT !.sharesTrace = FALSE]
                   ELSE snapshot
    /\ UNCHANGED awaiting

\* the caller changes the snapshot it holds: snapshot.ganttChart.pop()
SnapshotPopTrace ==
    /\ calls < MaxCalls
    /\ calls' = calls + 1
    /\ snapshot.taken
    /\ snapshot.state.ganttChart # <<>>
    /\ LET popped == SubSeq(snapshot.state.ganttChart, 1,
                            Len(snapshot.state.ganttChart) - 1)
       IN /\ snapshot' = [snapshot EXCEPT !.state.ganttChart = popped]
          /\ ganttChart' = IF snapshot.sharesTrace THEN popped ELSE ganttChart
    /\ UNCHANGED <<strategy, processes, readyQueue, waitingQueue, runningProcess,
                   completedProcesses, currentTime, isContextSwitching,
                   contextSwitchOverhead, metrics, quantumRemaining,
                   ioRequested, levelSince, awaiting>>

\* the caller changes the snapshot it holds: snapshot.readyQueue.pop()
SnapshotPopReady ==
    /\ calls < MaxCalls
    /\ calls' = calls + 1
    /\ snapshot.taken
    /\ snapshot.state.readyQueue # <<>>
    /\ snapshot' = [snapshot EXCEPT !.state.readyQueue = SubSeq(@, 1, Len(@) - 1)]
    /\ UNCHANGED <<strategy, processes, readyQueue, waitingQueue, runningProcess,
                   completedProcesses, currentTime, isContextSwitching,
                   contextSwitchOverhead, ganttChart, metrics, quantumRemaining,
                   ioRequested, levelSince, awaiting>>

NextSnapshot ==
    \/ GetState
    \/ \E draw \in StepRandoms, keep \in BOOLEAN : SnapshotStep(draw[1], draw[2], keep)
    \/ SnapshotReset
    \/ SnapshotPopTrace
    \/ SnapshotPopReady

SpecSnapshot == InitSnapshot /\ [][NextSnapshot]_vars

----------------------------------------------------------------------------
(* run() under MLFQ strategies of any number of levels *)

\* new MLFQStrategy(n, [1, 2, ..., n], MLFQBoostInterval)
MLFQStrategies ==
    {MLFQStrategy(n, [i \in 1..n |-> i], MLFQBoostInterval) : n \in 1..MaxQueues}

InitMLFQ ==
    /\ \E strat \in MLFQStrategies, overhead \in 0..MaxOverhead,
          workload \in SmallWorkloads \cup {CPUBoundWorkload} :
           Holds(addAll(Scheduler(strat, overhead), workload))
    /\ calls = 0
    /\ awaiting = <<>>
    /\ snapshot = NoSnapshot

SpecMLFQ == InitMLFQ /\ [][NextRun]_vars

----------------------------------------------------------------------------
(* One Process object on its own, driven through its methods: processes[1] *)
(* is the object *)

InitProcess ==
    /\ \E a \in 0..MaxArrival, b \in 1..MaxBurst, f \in IOFrequencies :
           Holds([Scheduler(NoStrategy, 0) EXCEPT !.processes = <<Process(a, b, f)>>,
                                                  !.ioRequested = <<0>>])
    /\ calls = 0
    /\ awaiting = <<>>
    /\ snapshot = NoSnapshot

OnProcess(p) ==
    /\ processes' = <<p>>
    /\ UNCHANGED <<strategy, readyQueue, waitingQueue, runningProcess,
                   completedProcesses, currentTime, isContextSwitching,
                   contextSwitchOverhead, ganttChart, metrics, quantumRemaining,
                   ioRequested, levelSince,
                   awaiting, snapshot, calls>>

\* the caller's clock, which it passes to setState
ProcTick ==
    /\ currentTime < MaxTime
    /\ currentTime' = currentTime + 1
    /\ UNCHANGED <<strategy, processes, readyQueue, waitingQueue, runningProcess,
                   completedProcesses, isContextSwitching, contextSwitchOverhead,
                   ganttChart, metrics, quantumRemaining, ioRequested, levelSince,
                   awaiting, snapshot, calls>>

ProcSetState(newState) == OnProcess(setState(processes[1], newState, currentTime))

ProcExecute == OnProcess(execute(processes[1], 1))

ProcReset == OnProcess(processReset(processes[1]))

NextProcess ==
    \/ ProcTick
    \/ \E newState \in ProcessStates : ProcSetState(newState)
    \/ ProcExecute
    \/ ProcReset

SpecProcess == InitProcess /\ [][NextProcess]_vars

----------------------------------------------------------------------------
(* Properties *)

Procs == 1..Len(processes)
InQueue(queue, id) == \E i \in 1..Len(queue) : queue[i] = id

\* C1: single-CPU invariant.  After any sequence of whole calls, a process is
\* RUNNING exactly when it is the scheduler's runningProcess, so at most one
\* process is RUNNING.
C1_SingleCPU ==
    /\ \A id \in Procs : (processes[id].state = S_RUNNING) <=> (runningProcess = id)
    /\ Cardinality({id \in Procs : processes[id].state = S_RUNNING}) <= 1

\* a process holds the CPU after a control call was made, while another
\* process is ready
C1_Witness ==
    /\ runningProcess # 0
    /\ calls > 0
    /\ Len(readyQueue) > 0
    /\ currentTime > 1

\* the transitions the claim lists
C2_Accepted ==
    {<<S_NEW, S_READY>>, <<S_READY, S_RUNNING>>, <<S_READY, S_TERMINATED>>,
     <<S_RUNNING, S_READY>>, <<S_RUNNING, S_WAITING>>, <<S_RUNNING, S_TERMINATED>>,
     <<S_WAITING, S_READY>>}

\* C2: setState accepts exactly the seven listed transitions (it returns true
\* and the process is in the requested state); every other request, from any
\* state the object can be in and at any time, returns false and leaves the
\* state and every timing field as they were.
C2_SetStateTable ==
    \A newState \in ProcessStates, time \in 0..MaxTime :
        LET p == processes[1]
            after == setState(p, newState, time)
        IN IF <<p.state, newState>> \in C2_Accepted
             THEN setStateAccepts(p, newState) /\ after.state = newState
             ELSE /\ ~setStateAccepts(p, newState)
                  /\ after.state = p.state
                  /\ after.waitingTime = p.waitingTime
                  /\ after.currentWaitStart = p.currentWaitStart
                  /\ after.startTime = p.startTime
                  /\ after.responseTime = p.responseTime
                  /\ after.completionTime = p.completionTime
                  /\ after.turnaroundTime = p.turnaroundTime
                  /\ after.remainingTime = p.remainingTime
                  /\ after.quantumUsed = p.quantumUsed

\* a terminated process that waited and ran on the way
C2_Witness ==
    /\ processes[1].state = S_TERMINATED
    /\ processes[1].waitingTime > 0
    /\ processes[1].remainingTime < processes[1].burstTime
    /\ processes[1].completionTime > processes[1].startTime

\* C3: killProcess(id) on a process in any non-terminal state (NEW, READY,
\* RUNNING or WAITING) leaves it TERMINATED and in none of the ready queue,
\* the waiting queue and the running slot.
C3_KillTerminates ==
    [][\A id \in Procs :
          (processes[id].state # S_TERMINATED /\ KillProcess(id)) =>
              /\ processes'[id].state = S_TERMINATED
              /\ ~InQueue(readyQueue', id)
              /\ ~InQueue(waitingQueue', id)
              /\ runningProcess' # id]_vars

\* C4: killing the RUNNING process frees the CPU at once, and the killed
\* process is TERMINATED and listed in completedProcesses although its
\* remainingTime was > 0.
C4_KillRunning ==
    [][\A id \in Procs :
          (runningProcess = id /\ processes[id].remainingTime > 0 /\ KillProcess(id)) =>
              /\ runningProcess' = 0
              /\ processes'[id].state = S_TERMINATED
              /\ InQueue(completedProcesses', id)]_vars

\* the execution entries of process id in the trace
ExecEntries(id) ==
    {i \in 1..Len(ganttChart) :
        ganttChart[i].type = "execution" /\ ganttChart[i].processId = id}

\* the dispatches of process id: a context switch is followed at once by the
\* first execution unit of the process it switched to
Dispatches(id) ==
    {i \in 1..Len(ganttChart) :
        /\ ganttChart[i].type = "context_switch"
        /\ i < Len(ganttChart)
        /\ ganttChart[i + 1].type = "execution"
        /\ ganttChart[i + 1].processId = id}

\* C5: conservation law.  For every process that ran to completion,
\* turnaroundTime = completionTime - arrivalTime and waitingTime + executed
\* units + I/O durations + the context-switch time of some of its dispatches
\* = turnaroundTime.
C5_Conservation ==
    \A id \in Procs :
        LET p == processes[id]
        IN (p.state = S_TERMINATED /\ Cardinality(ExecEntries(id)) = p.burstTime) =>
              /\ p.turnaroundTime = p.completionTime - p.arrivalTime
              /\ \E k \in 0..Cardinality(Dispatches(id)) :
                     p.waitingTime + Cardinality(ExecEntries(id)) + ioRequested[id]
                         + k * contextSwitchOverhead = p.turnaroundTime

\* the start of the first execution entry of process id
FirstExecStart(id) ==
    LET first == CHOOSE i \in ExecEntries(id) : \A j \in ExecEntries(id) : i <= j
    IN ganttChart[first].startTime

\* responseTime is unset until the process first runs, and from then on it is
\* the time of that first transition into RUNNING minus arrivalTime
C6_ResponseAtFirstRun ==
    \A id \in Procs :
        IF ExecEntries(id) = {}
          THEN processes[id].responseTime = NULL
          ELSE processes[id].responseTime = FirstExecStart(id) - processes[id].arrivalTime

\* C6: responseTime is set exactly once, at the first transition into
\* RUNNING, to the simulated time of that transition minus arrivalTime, and
\* no later call of the run (preemption, I/O, another dispatch, kill) changes it.
C6_ResponseTimeOnce ==
    [][/\ C6_ResponseAtFirstRun'
       /\ (~Reset /\ ~Clear) =>
              \A id \in Procs :
                  processes[id].responseTime # NULL =>
                      processes'[id].responseTime = processes[id].responseTime]_vars

\* a process that was dispatched a second time after its first run and has finished
C6_Witness ==
    \E id \in Procs :
        /\ Cardinality(Dispatches(id)) >= 2
        /\ processes[id].responseTime # NULL
        /\ processes[id].completionTime >
               processes[id].arrivalTime + processes[id].responseTime + 1

\* what the claim says of the engine e after reset()
C7_Rewound(e) ==
    /\ e.currentTime = 0
    /\ \A i \in 1..Len(e.processes) :
           e.processes[i].state =
               IF e.processes[i].arrivalTime <= 0 THEN S_READY ELSE S_NEW
    /\ e.runningProcess = 0
    /\ e.waitingQueue = <<>>
    /\ e.ganttChart = <<>>
    /\ e.completedProcesses = <<>>
    /\ e.metrics = [totalIdleTime |-> 0, totalContextSwitches |-> 0,
                    processesCompleted |-> 0]

\* C7: reset() is idempotent.  From every reachable engine state a second
\* reset() yields the state the first one yielded: currentTime 0, every
\* process NEW or READY by arrivalTime <= 0, nothing running or waiting, empty
\* trace and completed list, zeroed counters.
C7_ResetIdempotent ==
    /\ reset(reset(Engine)) = reset(Engine)
    /\ C7_Rewound(reset(Engine))

\* an engine just rewound by reset() after an MLFQ run that had dispatched a
\* demoted process: only reset() leaves that quantum at time 0
C7_Witness ==
    /\ Engine = reset(Engine)
    /\ currentTime = 0
    /\ Len(processes) = MaxProcs
    /\ Len(readyQueue) > 0
    /\ strategy.name = "MLFQ"
    /\ strategy.timeQuantum # MLFQQuantums[1]

\* the registry holds exactly the processes of the workload, in its order
IsWorkload(workload) ==
    /\ Len(processes) = Len(workload)
    /\ \A i \in 1..Len(workload) :
           /\ processes[i].arrivalTime = workload[i].arrivalTime
           /\ processes[i].burstTime = workload[i].burstTime
           /\ processes[i].ioFrequency = workload[i].ioFrequency

\* the process ids of the execution entries of the trace, in trace order
ExecOrder ==
    LET execs == SelectSeq(ganttChart, LAMBDA entry : entry.type = "execution")
    IN [i \in 1..Len(execs) |-> execs[i].processId]

\* the process ids of the dispatches of the trace, in trace order
DispatchOrder ==
    LET at == SelectSeq([i \in 1..Len(ganttChart) |-> i],
                        LAMBDA i : /\ ganttChart[i].type = "context_switch"
                                   /\ i < Len(ganttChart)
                                   /\ ganttChart[i + 1].type = "execution")
    IN [k \in 1..Len(at) |-> ganttChart[at[k] + 1].processId]

\* C8: the convoy scenario.  With A(0, 10), B(1, 2), C(2, 1), no I/O, all
\* added before the first step, FCFS and context-switch overhead 0: the
\* execution order is A, B, C (no unit of a later process precedes a unit of
\* an earlier one), the completion times are 10, 12 and 13, and B's
\* waitingTime is 9.
C8_ConvoyFCFS ==
    (strategy.name = "FCFS" /\ contextSwitchOverhead = 0 /\ IsWorkload(ConvoyWorkload)) =>
        /\ \A i, j \in 1..Len(ExecOrder) : i < j => ExecOrder[i] <= ExecOrder[j]
        /\ processes[1].completionTime \in {NULL, 10}
        /\ processes[2].completionTime \in {NULL, 12}
        /\ processes[3].completionTime \in {NULL, 13}
        /\ processes[2].completionTime # NULL => processes[2].waitingTime = 9
        /\ currentTime >= 10 => processes[1].completionTime = 10
        /\ currentTime >= 12 => processes[2].completionTime = 12
        /\ currentTime >= 13 => processes[3].completionTime = 13

\* the convoy scenario has run to completion under FCFS without overhead
C8_Witness ==
    /\ strategy.name = "FCFS"
    /\ contextSwitchOverhead = 0
    /\ IsWorkload(ConvoyWorkload)
    /\ isComplete(Engine)
    /\ DispatchOrder = <<1, 2, 3>>

\* the starvation scenario under non-preemptive SJF
C9_Scenario ==
    /\ strategy.name = "SJF"
    /\ ~strategy.isPreemptive
    /\ \/ IsWorkload(StarvationWorkload(0))
       \/ IsWorkload(StarvationWorkload(5))

\* the ready queue selectNext is given by the next step()
ReadyAtSelection == checkIOCompletions(checkArrivals(Engine)).readyQueue

\* C9 (amended): in the starvation scenario, over the run of 40 time units,
\* the burst-50 process is never selected while a shorter ready process
\* exists: whenever a step dispatches it, no process in the ready queue that
\* step selects from has less remaining time.
C9_LongNeverSelectedOverShorter ==
    [][(C9_Scenario /\ Cardinality(Dispatches(1))' > Cardinality(Dispatches(1))) =>
          \A i \in 1..Len(ReadyAtSelection) :
              processes[ReadyAtSelection[i]].remainingTime >= processes[1].remainingTime]_vars

\* C9: the claim as stated.  The burst-50 process is never selected while a
\* shorter ready process exists, and within the window of 40 time units it is
\* READY, never RUNNING, whenever a shorter job is present in the ready queue
\* (the weakest reading of "once at least one shorter job is present").
C9_LongStarved ==
    [][/\ (C9_Scenario /\ Cardinality(Dispatches(1))' > Cardinality(Dispatches(1))) =>
            \A i \in 1..Len(ReadyAtSelection) :
                processes[ReadyAtSelection[i]].remainingTime >= processes[1].remainingTime
       /\ (/\ C9_Scenario
           /\ currentTime' <= MaxRunTime
           /\ \E i \in 1..Len(readyQueue') :
                  processes'[readyQueue'[i]].remainingTime < processes'[1].remainingTime) =>
              processes'[1].state = S_READY]_vars

\* in the starvation scenario a shorter job was preferred and has finished,
\* the burst-50 process was then selected from a queue holding it alone, and
\* a later shorter job waits behind it
C9_Witness ==
    /\ C9_Scenario
    /\ currentTime <= MaxRunTime
    /\ processes[1].state = S_RUNNING
    /\ \E id \in Procs : id # 1 /\ processes[id].state = S_TERMINATED
    /\ \E id \in Procs : id # 1 /\ processes[id].state = S_READY

\* N processes of equal burst B arriving together, no I/O, Round Robin with
\* quantum Q < B
C10_Scenario ==
    /\ strategy.name = "Round Robin"
    /\ \E n \in 1..MaxEqualProcs, b \in 2..MaxEqualBurst, a \in 0..MaxArrival :
           /\ IsWorkload([i \in 1..n |-> [arrivalTime |-> a, burstTime |-> b,
                                          ioFrequency |-> 0]])
           /\ strategy.timeQuantum < b

\* C10: Round Robin fairness.  In the scenario the processes receive the CPU
\* in round-robin order (the k-th dispatch is of process ((k - 1) mod N) + 1)
\* and at every point, so at every point before the final lap, the executed
\* units of any two processes differ by at most Q.
C10_RoundRobinFair ==
    C10_Scenario =>
        /\ \A k \in 1..Len(DispatchOrder) :
               DispatchOrder[k] = ((k - 1) % Len(processes)) + 1
        /\ \A i, j \in Procs :
               (processes[i].burstTime - processes[i].remainingTime)
                 - (processes[j].burstTime - processes[j].remainingTime)
                   <= strategy.timeQuantum

\* in the scenario with three processes, the second lap has begun and nobody
\* has finished: the first process is ahead of the last by a whole quantum
C10_Witness ==
    /\ C10_Scenario
    /\ Len(processes) = MaxEqualProcs
    /\ Len(DispatchOrder) > MaxEqualProcs
    /\ \A id \in Procs : processes[id].remainingTime > 0
    /\ \E i, j \in Procs :
           processes[j].remainingTime - processes[i].remainingTime = strategy.timeQuantum

\* C11: MLFQ boost.  Under MLFQ every non-terminated process is forced back
\* to level 0 once boostInterval time units have passed since the last boost,
\* so no process has been above level 0 for longer than boostInterval (plus
\* the one step, a context switch and a unit, within which a boost that is
\* due takes place).
C11_BoostBoundsDemotion ==
    strategy.name = "MLFQ" =>
        \A id \in Procs :
            (processes[id].state # S_TERMINATED /\ processes[id].queueLevel > 0) =>
                currentTime - levelSince[id]
                    <= strategy.boostInterval + contextSwitchOverhead + 1

\* a pure CPU-bound process, longer than the level-0 quantum, alone under MLFQ
C12_Scenario ==
    /\ strategy.name = "MLFQ"
    /\ Len(processes) = 1
    /\ processes[1].ioFrequency = 0
    /\ processes[1].burstTime > strategy.quantums[1]

\* C12: MLFQ demotion.  In the scenario, each step that exhausts the quantum
\* of the process (it ran a unit, quantumRemaining is down to 0 after it and
\* the process is not finished) moves it exactly one level down, unless it is at
\* the maximum level numQueues - 1, where it stays; no other step changes its
\* level.
C12_DemotedPerQuantum ==
    [][C12_Scenario =>
          processes'[1].queueLevel =
              IF /\ processes'[1].remainingTime < processes[1].remainingTime
                 /\ quantumRemaining' <= 0
                 /\ processes'[1].remainingTime > 0
                THEN Min(processes[1].queueLevel + 1, strategy.numQueues - 1)
                ELSE processes[1].queueLevel]_vars

\* the process went down level by level to the maximum level and has
\* exhausted a quantum there
C12_Witness ==
    /\ C12_Scenario
    /\ processes[1].queueLevel = strategy.numQueues - 1
    /\ quantumRemaining <= 0
    /\ processes[1].remainingTime > 0
    /\ processes[1].burstTime - processes[1].remainingTime
           = strategy.quantums[1] + strategy.quantums[2] + strategy.quantums[3]

\* C13: under MLFQ with N levels, for any N >= 1, every process's queue
\* level is within 0..N-1 in every state, and each exhausted quantum takes
\* the process one level down until it is at level N-1.
C13_LevelWithinQueues ==
    [][strategy.name = "MLFQ" =>
          \A id \in Procs :
              /\ processes'[id].queueLevel \in 0..(strategy.numQueues - 1)
              /\ (/\ processes'[id].remainingTime < processes[id].remainingTime
                  /\ quantumRemaining' <= 0
                  /\ processes'[id].remainingTime > 0) =>
                     processes'[id].queueLevel =
                         Min(processes[id].queueLevel + 1, strategy.numQueues - 1)]_vars

\* C14: a step is atomic.  From the moment a step() has removed the process
\* it selected from the ready queue until that step() finishes, the engine
\* state is changed by nothing but that step() itself running on: no second
\* step, killProcess, injectIOInterrupt, addProcess or reset takes place.
C14_StepAtomic ==
    [][awaiting # <<>> =>
          \E random \in Randoms, ioRandom \in IORandoms :
              StepResume(random, ioRandom)]_vars

\* every process of the engine has ioFrequency 0
AllCPUBound == \A id \in Procs : processes[id].ioFrequency = 0

\* the scenario of the current run: the engine as it was before the first
\* step(), built again from the policy and its configuration, the overhead
\* and the process definitions
ScenarioEngine ==
    LET fresh == IF strategy.name = "MLFQ"
                   THEN MLFQStrategy(strategy.numQueues, strategy.quantums,
                                     strategy.boostInterval)
                   ELSE strategy
        workload == [i \in Procs |-> [arrivalTime |-> processes[i].arrivalTime,
                                      burstTime |-> processes[i].burstTime,
                                      ioFrequency |-> processes[i].ioFrequency]]
    IN addAll(Scheduler(fresh, contextSwitchOverhead), workload)

\* the step() calls made so far: each call appends exactly one execution or
\* idle entry to the trace
StepsTaken ==
    Cardinality({i \in 1..Len(ganttChart) : ganttChart[i].type # "context_switch"})

\* the engine after n further step() calls, with the draws fixed
RECURSIVE stepTimes(_, _)
stepTimes(e, n) == IF n = 0 THEN e ELSE stepTimes(step(e, 0, 0), n - 1)

\* C15: pacing independence.  For a workload whose processes all have
\* ioFrequency 0, the engine reached by stepping (its trace, every process
\* field, its counters) is the one any other run of the same scenario
\* reaches after as many steps: it is a function of the policy and its
\* configuration, the overhead and the process definitions, and the next
\* step() does not depend on what Math.random() returns.
C15_RunDetermined ==
    AllCPUBound =>
        /\ Engine = stepTimes(ScenarioEngine, StepsTaken)
        /\ \A random \in Randoms, ioRandom \in IORandoms :
               step(Engine, random, ioRandom) = step(Engine, 0, 0)

\* a run of several CPU-bound processes, with context switches that take
\* time, has been stepped to completion
C15_Witness ==
    /\ AllCPUBound
    /\ Len(processes) > 1
    /\ contextSwitchOverhead > 0
    /\ isComplete(Engine)
    /\ StepsTaken > Len(processes)

\* C16: each call to step() advances currentTime by exactly one time unit or
\* by exactly one context switch (contextSwitchOverhead), never by both.
C16_StepAdvancesOnce ==
    [][(\E draw \in StepRandoms : RunStep(draw[1], draw[2])) =>
          \/ currentTime' = currentTime + 1
          \/ currentTime' = currentTime + contextSwitchOverhead]_vars

\* C17: a snapshot is an immutable view.  While a caller holds a snapshot
\* (the step does not hand it a new one), an engine operation leaves every
\* field the snapshot reads as it was, and a change made to the snapshot
\* leaves the engine as it was: no step changes both.
C17_SnapshotImmutable ==
    [][(snapshot.taken /\ snapshot'.state # getState(Engine')) =>
          \/ snapshot'.state = snapshot.state
          \/ Engine' = Engine]_vars

-----------------------------------------------------------------------------
(* The engine fed with whatever burstTime the caller passes: ControlPanel *)
(* hands parseInt(field) to addProcess, which hands it to new Process(...) *)

\* the burst times a caller can pass: negative, zero and positive
AnyBurstTimes == {-1, 0, 1, 2}

InitAnyBurst ==
    /\ \E overhead \in 0..MaxOverhead, strat \in Strategies :
           Holds(Scheduler(strat, overhead))
    /\ calls = 0
    /\ awaiting = <<>>
    /\ snapshot = NoSnapshot

\* scheduler.addProcess({arrivalTime, burstTime, ioFrequency})
AddAnyProcess(arrivalTime, burstTime, ioFrequency) ==
    /\ Len(processes) < MaxProcs
    /\ Commit(addProcess(Engine, Process(arrivalTime, burstTime, ioFrequency)))
    /\ UNCHANGED <<calls, awaiting, snapshot>>

NextAnyBurst ==
    \/ \E a \in 0..MaxArrival, b \in AnyBurstTimes, f \in IOFrequencies :
           AddAnyProcess(a, b, f)
    \/ \E draw \in StepRandoms : Step(draw[1], draw[2])

SpecAnyBurst == InitAnyBurst /\ [][NextAnyBurst]_vars

\* no execution entry of the trace names a process of burstTime <= 0
NonPositiveBurstNotInTrace ==
    \A k \in 1..Len(ganttChart) :
        ganttChart[k].type = "execution" =>
            processes[ganttChart[k].processId].burstTime > 0

\* C18: a process with burstTime <= 0 is rejected at construction, so no
\* such process is ever among the engine's processes, in the running slot
\* or named by an execution entry of the trace.
C18_NonPositiveBurstRejected ==
    /\ \A id \in Procs : processes[id].burstTime > 0
    /\ runningProcess # 0 => processes[runningProcess].burstTime > 0
    /\ NonPositiveBurstNotInTrace

\* C19: step() called while no strategy is set throws and changes nothing:
\* the engine after the call (time, processes, queues, trace, counters) is
\* the engine before it, whatever the random draws would have been.
C19_StepWithoutStrategy ==
    strategy = NoStrategy =>
        /\ stepThrows(Engine)
        /\ \A random \in Randoms, ioRandom \in IORandoms :
               step(Engine, random, ioRandom) = Engine

\* no strategy, with a process ready to be dispatched and one yet to arrive:
\* a step() that ran would change the engine
C19_Witness ==
    /\ strategy = NoStrategy
    /\ readyQueue # <<>>
    /\ \E id \in Procs : processes[id].state = S_NEW

\* the time spent executing: currentTime less idle time and switch overhead
ExecutedTime ==
    currentTime - metrics.totalIdleTime
        - metrics.totalContextSwitches * contextSwitchOverhead

\* C20: in every state reached by a sequence of calls with a fixed overhead
\* the reported cpuUtilization lies in [0, 100] (0..1000 tenths of a
\* percent), and 0 <= currentTime - totalIdleTime - totalContextSwitches *
\* contextSwitchOverhead <= currentTime.
C20_CPUUtilizationInRange ==
    /\ calculateMetrics(Engine).cpuUtilization \in 0..1000
    /\ 0 <= ExecutedTime
    /\ ExecutedTime <= currentTime

\* a process has completed after idle time and a context switch that cost
\* time, and the reported utilization is strictly between 0 and 100
C20_Witness ==
    /\ metrics.processesCompleted > 0
    /\ metrics.totalIdleTime > 0
    /\ metrics.totalContextSwitches > 0
    /\ contextSwitchOverhead > 0
    /\ calculateMetrics(Engine).cpuUtilization \in 1..999

NoneTerminated == \A id \in Procs : processes[id].state # S_TERMINATED

\* C21: while no process is TERMINATED, calculateMetrics reports 0 for the
\* three averages, for cpuUtilization and for throughput, and contextSwitches
\* is the totalContextSwitches counter.
C21_MetricsZeroUntilCompletion ==
    NoneTerminated =>
        calculateMetrics(Engine) =
            [avgWaitingTime |-> 0, avgTurnaroundTime |-> 0, avgResponseTime |-> 0,
             cpuUtilization |-> 0, throughput |-> 0,
             contextSwitches |-> metrics.totalContextSwitches]

\* nothing has completed, yet a process has run after a context switch and
\* another has waited
C21_Witness ==
    /\ NoneTerminated
    /\ metrics.totalContextSwitches > 0
    /\ \E id \in Procs : processes[id].remainingTime < processes[id].burstTime
    /\ \E id \in Procs : processes[id].waitingTime > 0

-----------------------------------------------------------------------------
(* SRTF run over workloads whose bursts are long enough for a running *)
(* process and a ready one to have the same remaining time *)

MaxSRTFBurst == 3

SRTFWorkloads ==
    UNION {[1..n -> [arrivalTime : 0..MaxArrival, burstTime : 1..MaxSRTFBurst,
                     ioFrequency : IOFrequencies]] : n \in 1..MaxProcs}

InitSRTF ==
    /\ \E overhead \in 0..MaxOverhead, workload \in SRTFWorkloads :
           Holds(addAll(Scheduler(SJFStrategy(TRUE), overhead), workload))
    /\ calls = 0
    /\ awaiting = <<>>
    /\ snapshot = NoSnapshot

SpecSRTF == InitSRTF /\ [][NextRun]_vars

\* process id was executed by the step and is READY after it: it was preempted
PreemptedByStep(id) ==
    /\ processes'[id].remainingTime < processes[id].remainingTime
    /\ processes'[id].state = S_READY

\* C22: under SRTF preemption uses strict inequality.  After a step that
\* leaves a process RUNNING no ready process has a strictly smaller
\* remainingTime than it, and a step preempts the process it executed only
\* when some ready process has a strictly smaller remainingTime.
C22_SRTFStrictPreemption ==
    [][(strategy.name = "SRTF" /\ \E draw \in StepRandoms : RunStep(draw[1], draw[2])) =>
          /\ runningProcess' # 0 =>
                 \A i \in 1..Len(readyQueue') :
                     processes'[readyQueue'[i]].remainingTime
                         >= processes'[runningProcess'].remainingTime
          /\ \A id \in Procs :
                 PreemptedByStep(id) =>
                     \E i \in 1..Len(readyQueue') :
                         processes'[readyQueue'[i]].remainingTime
                             < processes'[id].remainingTime]_vars

\* a process has run and keeps the CPU while a ready process has exactly
\* its remaining time
C22_Witness ==
    /\ strategy.name = "SRTF"
    /\ runningProcess # 0
    /\ processes[runningProcess].remainingTime < processes[runningProcess].burstTime
    /\ \E i \in 1..Len(readyQueue) :
           processes[readyQueue[i]].remainingTime = processes[runningProcess].remainingTime

\* process id was executed by the step, did not complete and did not go to I/O
RanOn(id) ==
    /\ processes'[id].remainingTime < processes[id].remainingTime
    /\ processes'[id].remainingTime > 0
    /\ processes'[id].state # S_WAITING

\* the ready queue after the step, the process id left out
OthersReady(id) == SelectSeq(readyQueue', LAMBDA other : other # id)

\* C23: under Round Robin a process that ran a unit without completing or
\* requesting I/O is preempted if and only if quantumRemaining <= 0 and
\* another process is ready.  A preempted process is the last of the ready
\* queue; one that is not preempted stays RUNNING, and when it was running
\* before the step no context switch is counted.
C23_RoundRobinPreemption ==
    [][(strategy.name = "Round Robin" /\ \E draw \in StepRandoms : RunStep(draw[1], draw[2])) =>
          \A id \in Procs :
              RanOn(id) =>
                  /\ processes'[id].state = S_READY
                         <=> (quantumRemaining' <= 0 /\ Len(OthersReady(id)) > 0)
                  /\ processes'[id].state = S_READY =>
                         /\ readyQueue'[Len(readyQueue')] = id
                         /\ runningProcess' = 0
                  /\ processes'[id].state # S_READY =>
                         /\ runningProcess' = id
                         /\ processes'[id].state = S_RUNNING
                         /\ runningProcess = id =>
                                metrics'.totalContextSwitches = metrics.totalContextSwitches]_vars

\* a process ran past its quantum while nobody waited (quantumRemaining went
\* below 0) and was preempted to the tail once another process was ready
C23_Witness ==
    /\ strategy.name = "Round Robin"
    /\ quantumRemaining < 0
    /\ runningProcess = 0
    /\ Len(readyQueue) >= 2
    /\ LET last == readyQueue[Len(readyQueue)]
       IN processes[last].remainingTime < processes[last].burstTime

\* the step dispatched a process: a context switch was counted
StepDispatched == metrics'.totalContextSwitches = metrics.totalContextSwitches + 1

\* the process the step dispatched: the one its execution entry names
DispatchedByStep == ganttChart'[Len(ganttChart')].processId

C25_NonPreemptive ==
    [][(/\ strategy.name \in {"FCFS", "SJF"}
        /\ \E draw \in StepRandoms : RunStep(draw[1], draw[2])) =>
          \A id \in Procs :
              /\ ~PreemptedByStep(id)
              /\ processes[id].state = S_RUNNING =>
                     /\ processes'[id].state \in {S_RUNNING, S_WAITING, S_TERMINATED}
                     /\ processes'[id].state = S_RUNNING => runningProcess' = id]_vars

\* under non-preemptive SJF a process keeps the CPU, two units run, while a
\* process of less remaining time is ready
C25_Witness ==
    /\ strategy.name = "SJF"
    /\ runningProcess # 0
    /\ processes[runningProcess].remainingTime + 2 <= processes[runningProcess].burstTime
    /\ \E i \in 1..Len(readyQueue) :
           processes[readyQueue[i]].remainingTime < processes[runningProcess].remainingTime

\* process id is due at the start of the next step: NEW with its arrival
\* time reached, or WAITING with its I/O countdown reaching 0 in the step
DueAtStep(id) ==
    \/ processes[id].state = S_NEW /\ processes[id].arrivalTime <= currentTime
    \/ /\ processes[id].state = S_WAITING
       /\ InQueue(waitingQueue, id)
       /\ processes[id].ioRemaining <= 1

\* the step executed a unit of process id: its execution entry is the last
\* of the trace
ExecutedByStep(id) ==
    /\ Len(ganttChart') > Len(ganttChart)
    /\ ganttChart'[Len(ganttChart')].type = "execution"
    /\ ganttChart'[Len(ganttChart')].processId = id

\* C26: within a step admission and I/O completion precede dispatch.  A
\* process due at the start of the step is in the ready queue the policy
\* selects from; when no process is running the step executes a process of
\* that queue, a due one when the policy selects it; a due process that is
\* not executed is READY, in the ready queue, after the step.
C26_AdmissionBeforeDispatch ==
    [][(/\ strategy # NoStrategy
        /\ \E draw \in StepRandoms : Step(draw[1], draw[2])) =>
          \A id \in Procs :
              DueAtStep(id) =>
                  /\ InQueue(ReadyAtSelection, id)
                  /\ (runningProcess = 0
                        /\ selectNext(strategy, stepBegin(Engine).engine.processes,
                                      ReadyAtSelection) = id) =>
                         ExecutedByStep(id)
                  /\ ~ExecutedByStep(id) =>
                         /\ processes'[id].state = S_READY
                         /\ InQueue(readyQueue', id)]_vars

\* a process that arrives after time 0 ran its first unit in the step that
\* admitted it: one context switch after its arrival time
C26_Witness ==
    \E id \in Procs :
        /\ processes[id].arrivalTime > 0
        /\ ExecEntries(id) # {}
        /\ FirstExecStart(id) = processes[id].arrivalTime + contextSwitchOverhead

\* the trace entries the step appended
AppendedByStep == SubSeq(ganttChart', Len(ganttChart) + 1, Len(ganttChart'))

\* how many of them are of one of the given kinds
AppendedOfKind(kinds) ==
    Cardinality({k \in 1..Len(AppendedByStep) : AppendedByStep[k].type \in kinds})

\* C27: a completed step() appends to the trace exactly one entry that is an
\* execution or an idle entry, never both and never neither, and
\* totalIdleTime goes up by one in exactly the steps that append an idle entry.
C27_ExecutionOrIdle ==
    [][(/\ strategy # NoStrategy
        /\ \E draw \in StepRandoms : Step(draw[1], draw[2])) =>
          /\ Len(ganttChart') > Len(ganttChart)
          /\ SubSeq(ganttChart', 1, Len(ganttChart)) = ganttChart
          /\ AppendedOfKind({"execution", "idle"}) = 1
          /\ metrics'.totalIdleTime = metrics.totalIdleTime + AppendedOfKind({"idle"})]_vars

\* the trace holds an idle entry and, after it, a context switch and an
\* execution entry, and every idle entry was counted
C27_Witness ==
    /\ metrics.totalIdleTime > 0
    /\ metrics.totalIdleTime
           = Cardinality({k \in 1..Len(ganttChart) : ganttChart[k].type = "idle"})
    /\ \E i, j \in 1..Len(ganttChart) :
           /\ i < j
           /\ ganttChart[i].type = "idle"
           /\ ganttChart[j].type = "execution"

\* the processes the transition took into RUNNING: not RUNNING before it, and
\* RUNNING after it or executed by it
EnteredRunning ==
    {id \in Procs :
        /\ processes[id].state # S_RUNNING
        /\ id <= Len(processes')
        /\ (processes'[id].state = S_RUNNING \/ ExecutedByStep(id))}

\* the transition appended the context switch of a dispatch of process id at
\* the current time, and the first execution entry of id right after it
SwitchThenRun(id) ==
    LET n == Len(ganttChart)
    IN /\ Len(ganttChart') = n + 2
       /\ ganttChart'[n + 1] =
              [type |-> "context_switch", processId |-> 0, startTime |-> currentTime,
               endTime |-> currentTime + contextSwitchOverhead]
       /\ ganttChart'[n + 2] =
              [type |-> "execution", processId |-> id,
               startTime |-> currentTime + contextSwitchOverhead,
               endTime |-> currentTime + contextSwitchOverhead + 1]

\* C28: every dispatch is charged exactly one context switch.  reset() and
\* clear() zero totalContextSwitches; any other call raises it by the number
\* of processes it takes into RUNNING, at most one, and records that switch
\* as a context_switch entry over [t, t + overhead) right before the first
\* execution entry of the dispatch; the counter is the number of
\* context_switch entries of the trace.
C28_SwitchPerDispatch ==
    [][/\ IF Reset \/ Clear
            THEN metrics'.totalContextSwitches = 0
            ELSE /\ metrics'.totalContextSwitches
                        = metrics.totalContextSwitches + Cardinality(EnteredRunning)
                 /\ Cardinality(EnteredRunning) <= 1
                 /\ \A id \in EnteredRunning : SwitchThenRun(id)
       /\ metrics'.totalContextSwitches
              = Cardinality({k \in 1..Len(ganttChart') :
                                ganttChart'[k].type = "context_switch"})]_vars

\* a process preempted with nobody else ready was dispatched again at the
\* cost of a second context switch
C28_Witness ==
    /\ strategy.name = "MLFQ"
    /\ Len(processes) = 1
    /\ ioRequested[1] = 0
    /\ metrics.totalContextSwitches = 2
    /\ \E k \in 1..Len(ganttChart) :
           /\ k + 2 <= Len(ganttChart)
           /\ ganttChart[k].type = "execution"
           /\ ganttChart[k + 1].type = "context_switch"
           /\ ganttChart[k + 2].type = "execution"
           /\ ganttChart[k + 2].processId = ganttChart[k].processId

\* process id ran the last unit of the trace and is READY with its quantum
\* used up: the last step preempted it on quantum expiry
PreemptedOnExpiry(id) ==
    /\ ganttChart # <<>>
    /\ ganttChart[Len(ganttChart)].type = "execution"
    /\ ganttChart[Len(ganttChart)].processId = id
    /\ processes[id].state = S_READY
    /\ quantumRemaining <= 0

\* process id ran the last unit of the trace, is READY at a queue level
\* above 0 and was already above level 0 before that unit
PreemptedLeaving(id) ==
    /\ ganttChart # <<>>
    /\ ganttChart[Len(ganttChart)].type = "execution"
    /\ ganttChart[Len(ganttChart)].processId = id
    /\ processes[id].state = S_READY
    /\ processes[id].queueLevel > 0
    /\ levelSince[id] < ganttChart[Len(ganttChart)].startTime

\* C29: under MLFQ processes of one level take turns.  A process preempted
\* on quantum expiry is not the next one dispatched while another ready
\* process is at the level it now has: that other process runs first.
C29_SameLevelRoundRobin ==
    [][(/\ strategy.name = "MLFQ"
        /\ \E draw \in StepRandoms : RunStep(draw[1], draw[2])
        /\ StepDispatched
        /\ PreemptedOnExpiry(DispatchedByStep)) =>
          \A i \in 1..Len(readyQueue) :
              readyQueue[i] # DispatchedByStep =>
                  processes[readyQueue[i]].queueLevel
                      # processes[DispatchedByStep].queueLevel]_vars

-----------------------------------------------------------------------------
(* MLFQ run over workloads with I/O and bursts long enough for a process to *)
(* yield, or to be preempted for a newcomer, at a queue level above 0 *)

\* one process that may yield for I/O at every unit, long enough to reach
\* the last level before it does
YieldingWorkload ==
    <<[arrivalTime |-> 0, burstTime |-> 6, ioFrequency |-> 50]>>

MLFQIOWorkloads ==
    SRTFWorkloads \cup {StarvationWorkload(first) : first \in 0..5}
        \cup {YieldingWorkload}

\* quanta that leave a process of level 1 quantum when a newcomer is admitted
MLFQIOQuantums == <<1, 3, 3>>

InitMLFQIO ==
    /\ \E overhead \in 0..MaxOverhead, workload \in MLFQIOWorkloads :
           Holds(addAll(Scheduler(MLFQStrategy(3, MLFQIOQuantums, MLFQBoostInterval),
                                  overhead), workload))
    /\ calls = 0
    /\ awaiting = <<>>
    /\ snapshot = NoSnapshot

SpecMLFQIO == InitMLFQIO /\ [][NextRun]_vars

\* the queue level the claim gives process id after the step: one less (not
\* below 0) when it yields for I/O, one more (capped) when it is preempted
\* with its quantum exhausted, as it was otherwise
LevelAfterStep(id) ==
    IF processes[id].state # S_WAITING /\ processes'[id].state = S_WAITING
      THEN Max(0, processes[id].queueLevel - 1)
      ELSE IF ExecutedByStep(id) /\ processes'[id].state = S_READY /\ quantumRemaining' <= 0
             THEN Min(processes[id].queueLevel + 1, strategy.numQueues - 1)
             ELSE processes[id].queueLevel

ArrivesBefore(a, b) ==
    \/ processes[a].arrivalTime < processes[b].arrivalTime
    \/ processes[a].arrivalTime = processes[b].arrivalTime /\ a < b

\* C31: under FCFS, with every process added before the first step and no
\* I/O, processes are dispatched, executed and completed in nondecreasing
\* order of arrivalTime, those of equal arrivalTime in the order they were
\* added, whatever the context-switch overhead.
C31_FCFSOrder ==
    (strategy.name = "FCFS" /\ AllCPUBound) =>
        /\ \A i, j \in 1..Len(DispatchOrder) :
               i < j => ArrivesBefore(DispatchOrder[i], DispatchOrder[j])
        /\ \A i, j \in 1..Len(ExecOrder) :
               i < j => \/ ExecOrder[i] = ExecOrder[j]
                        \/ ArrivesBefore(ExecOrder[i], ExecOrder[j])
        /\ \A i, j \in 1..Len(completedProcesses) :
               i < j => ArrivesBefore(completedProcesses[i], completedProcesses[j])

\* the unordered workload has run to completion under FCFS with overhead 1:
\* the third and fourth process, added after the second, ran before it
C31_Witness ==
    /\ strategy.name = "FCFS"
    /\ contextSwitchOverhead = 1
    /\ IsWorkload(UnorderedWorkload)
    /\ isComplete(Engine)
    /\ completedProcesses = <<1, 3, 4, 2>>

\* injectIOInterrupt(d) with process id running: what the call changes
InjectedEffect(id, d) ==
    /\ processes'[id].state = S_WAITING
    /\ processes'[id].ioRemaining = d
    /\ processes'[id].remainingTime = processes[id].remainingTime
    /\ processes'[id].waitingTime = processes[id].waitingTime
    /\ waitingQueue' = Append(waitingQueue, id)
    /\ runningProcess' = 0
    /\ \A other \in Procs : other # id => processes'[other] = processes[other]
    /\ UNCHANGED <<currentTime, readyQueue, completedProcesses, ganttChart, metrics,
                   strategy, quantumRemaining>>

\* a step and a process waiting for I/O: the countdown goes down by one, and
\* when it reaches 0 the process is in the ready queue the step selects
\* from, and READY or executed after the step
WaitingThroughStep(id) ==
    IF processes[id].ioRemaining > 1
      THEN /\ processes'[id].state = S_WAITING
           /\ processes'[id].ioRemaining = processes[id].ioRemaining - 1
           /\ InQueue(waitingQueue', id)
      ELSE /\ InQueue(ReadyAtSelection, id)
           /\ processes'[id].state = S_READY \/ ExecutedByStep(id)

\* C32: injectIOInterrupt(d) with a process running makes exactly that
\* process WAITING with I/O countdown d, appends it to the waiting queue and
\* frees the CPU, and changes neither currentTime nor any other process;
\* with no process running it changes nothing.  Each following step takes
\* one off the countdown, and the process becomes READY in the I/O-completion
\* phase of the step that takes it to 0 (the d-th, the next one when d <= 1);
\* nothing but a step (or a kill, reset or clear) ends its wait.
C32_InjectIO ==
    [][/\ \A d \in 1..MaxInjectIO :
              InjectIOInterrupt(d) =>
                  IF runningProcess = 0
                    THEN Engine' = Engine
                    ELSE InjectedEffect(runningProcess, d)
       /\ (strategy # NoStrategy /\ \E draw \in StepRandoms : Step(draw[1], draw[2])) =>
              \A id \in Procs :
                  (processes[id].state = S_WAITING /\ InQueue(waitingQueue, id)) =>
                      WaitingThroughStep(id)
       /\ \A id \in Procs :
              (/\ processes[id].state = S_WAITING
               /\ id <= Len(processes')
               /\ processes'[id].state # S_WAITING) =>
                  \/ \E draw \in StepRandoms : Step(draw[1], draw[2])
                  \/ KillProcess(id)
                  \/ Reset
                  \/ Clear]_vars

\* a process was interrupted for an I/O of 2 time units (its only I/O) and
\* has come back from it
C32_Witness ==
    \E id \in Procs :
        /\ ioRequested[id] = 2
        /\ processes[id].state \in {S_READY, S_RUNNING, S_TERMINATED}
        /\ processes[id].remainingTime > 0

\* process id is READY at the dispatch of the next step: READY already, or
\* made READY by the admission or I/O-completion phase of that step
ReadyAtDispatch(id) == processes[id].state = S_READY \/ DueAtStep(id)

\* the time process id entered the READY period the next step finds it in:
\* recorded when it became READY earlier, the start of the step when the
\* step itself makes it READY
ReadyEntry(id) ==
    IF processes[id].state = S_READY THEN processes[id].currentWaitStart ELSE currentTime

\* the transition dispatched process id out of a READY period: a context
\* switch was counted and the unit executed is of id
DispatchedFromReady(id) ==
    /\ StepDispatched
    /\ ExecutedByStep(id)
    /\ ReadyAtDispatch(id)

\* waitingTime of process id after the transition: 0 for a process just added
\* and after a reset; otherwise the READY period a
\* dispatch ends is added, from its READY entry to the RUNNING entry after
\* the context-switch overhead; nothing else adds to it
WaitingAfter(id) ==
    IF id \notin Procs \/ Reset
      THEN 0
      ELSE IF DispatchedFromReady(id)
             THEN processes[id].waitingTime
                      + (currentTime + contextSwitchOverhead - ReadyEntry(id))
             ELSE processes[id].waitingTime

\* the READY entry recorded for a process that is READY after the
\* transition: the end of the step that preempted it (the time 0 a reset
\* restarts at, when a reset re-admitted it), the time it had when
\* it stays READY, the time of the call that made it READY otherwise
ReadyEntryAfter(id) ==
    IF Reset \/ (id \in Procs /\ ExecutedByStep(id))
      THEN currentTime'
      ELSE IF id \in Procs /\ processes[id].state = S_READY
             THEN processes[id].currentWaitStart
             ELSE currentTime

C34_RemainingTime ==
    [][\A id \in 1..Len(processes') :
           LET burstTime == processes'[id].burstTime
               remainingTime == processes'[id].remainingTime
           IN /\ remainingTime >= 0
              /\ remainingTime <= burstTime
              /\ remainingTime = 0 <=> processes'[id].state = S_TERMINATED
              /\ processes'[id].state # S_TERMINATED =>
                     remainingTime = burstTime - Cardinality(ExecEntries(id))'
              /\ (id \in Procs /\ ~Reset) =>
                     /\ remainingTime <= processes[id].remainingTime
                     /\ ExecutedByStep(id) =>
                            remainingTime = processes[id].remainingTime - 1
                     /\ (ExecutedByStep(id) /\ processes'[id].state = S_TERMINATED) =>
                            Cardinality(ExecEntries(id))' = burstTime]_vars

\* a process of the longest burst has run to completion, and another one
\* was terminated by a kill with part of its burst not run
C34_Witness ==
    \E id, killed \in Procs :
        /\ processes[id].burstTime = MaxBurst
        /\ processes[id].state = S_TERMINATED
        /\ Cardinality(ExecEntries(id)) = MaxBurst
        /\ processes[killed].state = S_TERMINATED
        /\ Cardinality(ExecEntries(killed)) < processes[killed].burstTime

----------------------------------------------------------------------------
(* Scheduler.run to its end: the loop `while (isRunning && !isComplete()) *)
(* await step()` keeps calling step() as long as the run is not complete, *)
(* so a step that can be taken is eventually taken.  The workloads have no *)
(* I/O and are short enough to complete before MaxRunTime under every *)
(* policy and overhead; the empty workload is among them. *)

TerminateWorkloads ==
    {w \in SmallWorkloads \cup EqualWorkloads :
        \A i \in 1..Len(w) : w[i].ioFrequency = 0}
        \cup {ConvoyWorkload, UnorderedWorkload, CPUBoundWorkload, <<>>}

InitTerminate ==
    /\ \E strat \in Strategies, overhead \in 0..MaxOverhead,
          workload \in TerminateWorkloads :
           Holds(addAll(Scheduler(strat, overhead), workload))
    /\ calls = 0
    /\ awaiting = <<>>
    /\ snapshot = NoSnapshot

\* one iteration of the loop of run(): step() while the run is not complete,
\* the call taken phase by phase (admission, I/O completion and selection;
\* dispatch; execution) as step composes them when a strategy is set
RunLoop ==
    \E draw \in StepRandoms :
        /\ ~isComplete(Engine)
        /\ currentTime < MaxRunTime
        /\ \E begun \in {stepBegin(Engine)} :
           \E dispatched \in {stepDispatch(begun.engine, begun.nextProcess)} :
           \E next \in {stepExecute(dispatched, draw[1], draw[2])} : Commit(next)
        /\ UNCHANGED <<calls, awaiting, snapshot>>

\* an iteration of the loop is one call of step()
RunLoopIsStep ==
    [][RunLoop <=> NextRun]_vars

SpecTerminate == InitTerminate /\ [][RunLoop]_vars /\ WF_vars(RunLoop)

\* C35: termination.  With processes of burstTime >= 1 and no I/O, all
\* added before the run, under FCFS, SJF, SRTF, Round Robin and MLFQ the
\* repeated step() eventually makes every process TERMINATED: isComplete()
\* becomes true (before the time bound of the run is reached) and run()
\* stops, no step being taken once it is true; with zero processes
\* isComplete() is false.
C35_Termination ==
    /\ (Len(processes) > 0) ~> (isComplete(Engine) /\ currentTime < MaxRunTime)
    /\ [][~isComplete(Engine)]_vars
    /\ [](Len(processes) = 0 => ~isComplete(Engine))

\* the convoy workload has run to completion under Round Robin with
\* overhead 1
C35_Witness ==
    /\ strategy.name = "Round Robin"
    /\ contextSwitchOverhead = 1
    /\ IsWorkload(ConvoyWorkload)
    /\ \A id \in Procs : processes[id].state = S_TERMINATED
    /\ Len(completedProcesses) = 3

----------------------------------------------------------------------------
(* The engine driven by addProcess, step and injectIOInterrupt only, in any *)
(* order and number: no kill, no reset *)

InjectIO(ioDuration) ==
    /\ Commit(injectIOInterrupt(Engine, ioDuration))
    /\ UNCHANGED <<calls, awaiting, snapshot>>

NextNoKill ==
    \/ \E a \in 0..MaxArrival, b \in 1..MaxBurst, f \in IOFrequencies : AddProcess(a, b, f)
    \/ \E draw \in StepRandoms : Step(draw[1], draw[2])
    \/ \E d \in 1..MaxInjectIO : InjectIO(d)

SpecNoKill == Init /\ [][NextNoKill]_vars

\* the number of positions of queue that hold id
Occurrences(queue, id) == Cardinality({i \in 1..Len(queue) : queue[i] = id})

\* where process id is held: <<times in the ready queue, times in the
\* waiting queue, times in completedProcesses, 1 if in the running slot>>
Places(id) ==
    <<Occurrences(readyQueue, id), Occurrences(waitingQueue, id),
      Occurrences(completedProcesses, id), IF runningProcess = id THEN 1 ELSE 0>>

\* C36: queue/state consistency.  After any sequence of addProcess, step and
\* injectIOInterrupt calls every process is in exactly one place, the one
\* matching its state: NEW in no queue, READY exactly once in the ready
\* queue, RUNNING in the running slot, WAITING exactly once in the waiting
\* queue, TERMINATED exactly once in completedProcesses; and
\* metrics.processesCompleted is the length of completedProcesses.
C36_QueueStateConsistency ==
    /\ \A id \in Procs :
           Places(id) =
               CASE processes[id].state = S_NEW -> <<0, 0, 0, 0>>
                 [] processes[id].state = S_READY -> <<1, 0, 0, 0>>
                 [] processes[id].state = S_WAITING -> <<0, 1, 0, 0>>
                 [] processes[id].state = S_TERMINATED -> <<0, 0, 1, 0>>
                 [] processes[id].state = S_RUNNING -> <<0, 0, 0, 1>>
    /\ runningProcess # 0 => runningProcess \in Procs
    /\ metrics.processesCompleted = Len(completedProcesses)

\* one process has completed while another one, back from an injected I/O,
\* is in the ready queue
C36_Witness ==
    \E done, back \in Procs :
        /\ processes[done].state = S_TERMINATED
        /\ processes[back].state = S_READY
        /\ ioRequested[back] > 0
        /\ processes[back].ioFrequency = 0

\* the trace is contiguous from 0 to the current time
GapFree(trace, now) ==
    /\ Len(trace) > 0 => trace[1].startTime = 0 /\ trace[Len(trace)].endTime = now
    /\ \A i \in 2..Len(trace) : trace[i].startTime = trace[i - 1].endTime
    /\ \A i \in 1..Len(trace) : trace[i].startTime <= trace[i].endTime

\* C37: the trace is gap-free and non-overlapping.  After every step the
\* first entry starts at 0, every entry starts where the previous one ends
\* and the last entry ends at currentTime; killProcess, injectIOInterrupt and
\* addProcess neither add trace entries nor change currentTime.
C37_TraceGapFree ==
    [][/\ GapFree(ganttChart', currentTime')
       /\ (strategy # NoStrategy /\ \E draw \in StepRandoms : Step(draw[1], draw[2])) =>
              Len(ganttChart') > Len(ganttChart)
       /\ (\/ \E id \in Procs : KillProcess(id)
           \/ \E d \in 1..MaxInjectIO : InjectIOInterrupt(d)
           \/ \E a \in 0..MaxArrival, b \in 1..MaxBurst, f \in IOFrequencies :
                  AddProcess(a, b, f)) =>
              UNCHANGED <<ganttChart, currentTime>>]_vars

\* the trace holds an idle unit, a context switch that took time and an
\* execution unit, and an I/O interrupt was injected
C37_Witness ==
    /\ calls > 0
    /\ contextSwitchOverhead = 1
    /\ \E i, j, k \in 1..Len(ganttChart) :
           /\ ganttChart[i].type = "idle"
           /\ ganttChart[j].type = "context_switch"
           /\ ganttChart[k].type = "execution"
    /\ \E id \in Procs : ioRequested[id] > 0 /\ processes[id].ioFrequency = 0

\* the processes READY at the dispatch of the next step
ReadySetAtDispatch == {id \in Procs : ReadyAtDispatch(id)}

\* C38: work conservation.  A step records an idle unit only if the ready
\* queue is empty after its admission and I/O-completion phases; whenever
\* the CPU is free and some process is READY at dispatch time, under any
\* policy, the step dispatches one process and executes it.
C38_WorkConservation ==
    [][(/\ strategy # NoStrategy
        /\ \E draw \in StepRandoms : Step(draw[1], draw[2])) =>
          /\ AppendedOfKind({"idle"}) > 0 =>
                 /\ Len(ReadyAtSelection) = 0
                 /\ ReadySetAtDispatch = {}
                 /\ runningProcess = 0
          /\ (runningProcess = 0 /\ ReadySetAtDispatch # {}) =>
                 /\ StepDispatched
                 /\ AppendedOfKind({"idle"}) = 0
                 /\ \E id \in ReadySetAtDispatch :
                        /\ InQueue(ReadyAtSelection, id)
                        /\ ExecutedByStep(id)]_vars

\* under MLFQ a step idled before the only process arrived, and the process
\* was dispatched a second time, from a lower queue, the top queue empty
C38_Witness ==
    /\ strategy # NoStrategy
    /\ strategy.name = "MLFQ"
    /\ Len(processes) = 1
    /\ metrics.totalIdleTime > 0
    /\ metrics.totalContextSwitches >= 2
    /\ Len(ganttChart) > 0
    /\ ganttChart[Len(ganttChart)].type = "execution"
    /\ \A id \in Procs : processes[id].queueLevel > 0

----------------------------------------------------------------------------
(* step() called again while earlier calls are suspended in their *)
(* context-switch delay (the Step button pressed twice, or pressed while *)
(* play is running): the workload is loaded first, then nothing but *)
(* step() calls and their timers *)

InitSteps ==
    /\ \E strat \in Strategies, overhead \in 0..MaxOverhead, workload \in SmallWorkloads :
           Holds(addAll(Scheduler(strat, overhead), workload))
    /\ calls = 0
    /\ awaiting = <<>>
    /\ snapshot = NoSnapshot

NextSteps ==
    \/ \E draw \in StepRandoms : StepBegin(draw[1], draw[2])
    \/ \E draw \in StepRandoms : StepResume(draw[1], draw[2])

SpecSteps == InitSteps /\ [][NextSteps]_vars

\* C39: when a second step() starts while a first one is suspended in its
\* context-switch delay, then once both have finished the single-CPU
\* invariant holds: exactly the process held in runningProcess is RUNNING,
\* and no process is RUNNING outside the running slot.
C39_SingleCPUAfterOverlap ==
    awaiting = <<>> =>
        \A id \in Procs : (processes[id].state = S_RUNNING) <=> (runningProcess = id)

----------------------------------------------------------------------------
(* killProcess called on the process a step() has selected, while that *)
(* step() is suspended in its context-switch delay: one step() at a time, *)
(* and kills of the selected process only *)

\* killProcess(id) while the step() that selected id is suspended
KillSelected(id) ==
    /\ awaiting # <<>>
    /\ Head(awaiting) = id
    /\ Commit(killProcess(Engine, id))
    /\ UNCHANGED <<calls, awaiting, snapshot>>

NextKillSelected ==
    \/ \E draw \in StepRandoms : awaiting = <<>> /\ StepBegin(draw[1], draw[2])
    \/ \E draw \in StepRandoms : StepResume(draw[1], draw[2])
    \/ \E id \in Procs : KillSelected(id)

SpecKillSelected == InitSteps /\ [][NextKillSelected]_vars

\* C40: a process killed while the step() that selected it is suspended in
\* its context-switch delay is never placed in the running slot or recorded
\* as executing after its termination, and it is listed exactly once in
\* completedProcesses.
C40_KilledWhileSelected ==
    \A id \in Procs :
        processes[id].state = S_TERMINATED =>
            /\ runningProcess # id
            /\ \A i \in ExecEntries(id) :
                   ganttChart[i].endTime <= processes[id].completionTime
            /\ Occurrences(completedProcesses, id) = 1

====
